---- MODULE Spec2Model ----
(***************************************************************************)
(* Model of the spill crate: a unidirectional (Spillman) payment channel.  *)
(* The state is one Channel (channel/mod.rs), the PSBT that is passed      *)
(* between the two peers, and the value returned by the last call.         *)
(* Amounts are unsigned integers of AmountBits bits (u64 in the crate).    *)
(***************************************************************************)
EXTENDS Integers, Sequences, FiniteSets, TLC

(* ------------------------------ bounds --------------------------------- *)
\* width of an Amount in bits (u64 in the crate, scaled down)
AmountBits == 4
\* number of wallet / counterparty edits made to one PSBT
MaxSteps == 2
\* the channel capacity (1 BTC in main.rs), scaled down with the Amount width
Capacity == 3

AmountMax == 2 ^ AmountBits - 1

(* --------------------------- program constants ------------------------- *)
\* EcdsaSighashType discriminants (to_u32)
SIGHASH_ALL == 1
SIGHASH_NONE == 2
SIGHASH_SINGLE == 3
SIGHASH_ALL_ACP == 129
SIGHASH_NONE_ACP == 130
SIGHASH_SINGLE_ACP == 131
SighashTypes ==
    {SIGHASH_ALL, SIGHASH_NONE, SIGHASH_SINGLE,
     SIGHASH_ALL_ACP, SIGHASH_NONE_ACP, SIGHASH_SINGLE_ACP}

\* Sequence::MAX is 0xFFFFFFFF; only its (in)equality with other sequence
\* values is used, so it is written as the largest integer TLC represents.
Sequence_MAX == 2147483647
Sequence_ZERO == 0
\* Sequence::from_height(h) is the raw value h
Sequence_from_height(h) == h
\* Sequence::from_512_second_intervals(n) sets the type flag, bit 22
SEQUENCE_LOCKTIME_TYPE_FLAG == 4194304
Sequence_from_512_second_intervals(n) == n + SEQUENCE_LOCKTIME_TYPE_FLAG
\* the height main() passes to Sequence::from_height for the refund delay
RefundHeight == 6
\* transaction::Version::TWO and absolute::LockTime::ZERO
Version_TWO == 2
LockTime_ZERO == 0

(* ------------------------------ values --------------------------------- *)
\* Option<T>: None is the empty sequence, Some(x) the one-element sequence
None == <<>>
Some(x) == <<x>>
IsSome(o) == Len(o) = 1
Unwrap(o) == o[1]

\* Result<T, SpillError>, and the abort of the process (a panic)
Ok(v) == [tag |-> "Ok", cat |-> "", kind |-> "", val |-> v]
Err(c, k) == [tag |-> "Err", cat |-> c, kind |-> k, val |-> <<>>]
ErrWith(c, k, v) == [tag |-> "Err", cat |-> c, kind |-> k, val |-> v]
Panic == [tag |-> "Panic", cat |-> "", kind |-> "", val |-> <<>>]
Nothing == [tag |-> "None", cat |-> "", kind |-> "", val |-> <<>>]
IsOk(r) == r.tag = "Ok"
IsErr(r, c, k) == r.tag = "Err" /\ r.cat = c /\ r.kind = k

\* PublicKey { compressed, inner }
PublicKey(n, c) == [inner |-> n, compressed |-> c]
Alice == PublicKey("alice", TRUE)
Bob == PublicKey("bob", TRUE)

\* scripts: every script is a record of the same shape
\* (hashed is the kind of the script a script hash commits to)
Script(kd, h, a, b, d) == [kind |-> kd, hashed |-> h, k1 |-> a, k2 |-> b, delay |-> d]
\* the two-branch script ChannelParams::new builds
FundingScript(payer, payee, delay) ==
    Script("IF 2 k1 k2 2 CHECKMULTISIG ELSE delay CSV DROP k1 CHECKSIG ENDIF",
           "", payer.inner, payee.inner, delay)
\* ScriptBuf::new_p2wsh(&script.wscript_hash())
new_p2wsh(s) == Script("p2wsh", s.kind, s.k1, s.k2, s.delay)
\* PublicKey::wpubkey_hash: fails for an uncompressed key
wpubkey_hash(key) ==
    IF key.compressed THEN Ok(key.inner)
    ELSE Err("Config", "UncompressedPublicKey")
\* ScriptBuf::new_p2wpkh(&hash)
new_p2wpkh(h) == Script("p2wpkh", "", h, "", 0)
\* a script that belongs to neither peer
OtherScript == Script("p2wpkh", "", "carol", "", 0)

TxOut(v, s) == [value |-> v, script_pubkey |-> s]
OutPoint(t, n) == [txid |-> t, vout |-> n]
TxIn(o, s) == [previous_output |-> o, sequence |-> s]
Transaction(v, l, i, o) == [version |-> v, lock_time |-> l, input |-> i, output |-> o]
\* Transaction::compute_txid: a hash of the transaction's contents
compute_txid(tx) == <<tx.version, tx.lock_time, tx.input, tx.output>>

\* psbt::Input::default() and psbt::Output::default()
InputDefault ==
    [witness_utxo |-> None, witness_script |-> None,
     partial_sigs |-> <<>>, final_script_witness |-> None]
OutputDefault == [witness_script |-> None]
\* Psbt::from_unsigned_tx: one default entry per input and per output
from_unsigned_tx(tx) ==
    [unsigned_tx |-> tx,
     inputs |-> [i \in 1..Len(tx.input) |-> InputDefault],
     outputs |-> [i \in 1..Len(tx.output) |-> OutputDefault]]

(* ------------------------- Amount arithmetic --------------------------- *)
RECURSIVE SumValues(_)
\* the mathematical sum of the outputs' values
SumValues(outs) ==
    IF Len(outs) = 0 THEN 0 ELSE Head(outs).value + SumValues(Tail(outs))
\* u64 addition as `Amount + Amount` does it: checked, aborting on overflow
\* (the result is None when the process aborts)
AmountAdd(a, b) == IF a + b > AmountMax THEN None ELSE Some(a + b)
\* `Amount - Amount`: checked, aborting on underflow
AmountSub(a, b) == IF a < b THEN None ELSE Some(a - b)
\* `iter.map(|o| o.value).sum()`: a u64 sum; on overflow a build with overflow
\* checks aborts and a build without them wraps modulo 2^64
AmountSum(outs, checks) ==
    IF SumValues(outs) > AmountMax
    THEN (IF checks THEN None ELSE Some(SumValues(outs) % (AmountMax + 1)))
    ELSE Some(SumValues(outs))

(* ------------------------- signatures (BIP 143) ------------------------ *)
IsAnyoneCanPay(ty) == ty >= 128
BaseType(ty) == ty % 128
\* SighashCache::p2wsh_signature_hash(input_index = 0, script, value, ty):
\* the digest commits to exactly these parts of the transaction
p2wsh_signature_hash(tx, script, value, ty) ==
    [version |-> tx.version,
     prevouts |-> IF IsAnyoneCanPay(ty) THEN <<>>
                  ELSE [i \in 1..Len(tx.input) |-> tx.input[i].previous_output],
     sequences |-> IF IsAnyoneCanPay(ty) \/ BaseType(ty) # SIGHASH_ALL THEN <<>>
                   ELSE [i \in 1..Len(tx.input) |-> tx.input[i].sequence],
     outpoint |-> tx.input[1].previous_output,
     script_code |-> script,
     value |-> value,
     sequence |-> tx.input[1].sequence,
     outputs |-> IF BaseType(ty) = SIGHASH_ALL THEN tx.output
                 ELSE IF BaseType(ty) = SIGHASH_SINGLE /\ Len(tx.output) >= 1
                      THEN <<tx.output[1]>>
                      ELSE <<>>,
     lock_time |-> tx.lock_time,
     sighash_type |-> ty]
\* ecdsa::Signature { signature, sighash_type }; the signature is determined
\* by the key that made it and the digest it was made over. signed_tx records
\* the transaction the signer had before it; it is no part of the signature.
Signature(signer, msg, ty, tx) ==
    [signer |-> signer, msg |-> msg, sighash_type |-> ty, signed_tx |-> tx]
\* a signature check that does not look at the key
verify_ecdsa_any_key(msg, sig, pk) == sig.msg = msg
\* Secp256k1::verify_ecdsa(msg, sig, pk)
verify_ecdsa(msg, sig, pk) == sig.signer = pk.inner /\ sig.msg = msg

(* ----------------------- channel/mod.rs, psbt.rs ----------------------- *)
\* a constructor that does not look at the keys' encoding
ChannelParams_new_unchecked_keys(payer, payee, capacity, refund_locktime) ==
    IF capacity = 0 THEN Err("Config", "InvalidCapacity")
    ELSE IF \/ refund_locktime = Sequence_ZERO
            \/ refund_locktime = Sequence_from_height(0)
            \/ refund_locktime = Sequence_from_512_second_intervals(0)
    THEN Err("Config", "InvalidRefundLocktime")
    ELSE Ok([payer |-> payer,
             payee |-> payee,
             capacity |-> capacity,
             funding_script |-> FundingScript(payer, payee, refund_locktime),
             refund_locktime |-> refund_locktime])

\* a constructor that is content with one compressed key
ChannelParams_new_either_key(payer, payee, capacity, refund_locktime) ==
    IF capacity = 0 THEN Err("Config", "InvalidCapacity")
    ELSE IF ~(payer.compressed \/ payee.compressed)
    THEN Err("Config", "UncompressedPublicKey")
    ELSE IF \/ refund_locktime = Sequence_ZERO
            \/ refund_locktime = Sequence_from_height(0)
            \/ refund_locktime = Sequence_from_512_second_intervals(0)
    THEN Err("Config", "InvalidRefundLocktime")
    ELSE Ok([payer |-> payer,
             payee |-> payee,
             capacity |-> capacity,
             funding_script |-> FundingScript(payer, payee, refund_locktime),
             refund_locktime |-> refund_locktime])

\* ChannelParams::new
ChannelParams_new(payer, payee, capacity, refund_locktime) ==
    IF capacity = 0 THEN Err("Config", "InvalidCapacity")
    ELSE IF ~(payer.compressed /\ payee.compressed)
    THEN Err("Config", "UncompressedPublicKey")
    ELSE IF \/ refund_locktime = Sequence_ZERO
            \/ refund_locktime = Sequence_from_height(0)
            \/ refund_locktime = Sequence_from_512_second_intervals(0)
    THEN Err("Config", "InvalidRefundLocktime")
    ELSE Ok([payer |-> payer,
             payee |-> payee,
             capacity |-> capacity,
             funding_script |-> FundingScript(payer, payee, refund_locktime),
             refund_locktime |-> refund_locktime])

\* a funding template that pays the funding script itself, not its P2WSH
funding_psbt_bare_script(self) ==
    LET output == TxOut(self.capacity, self.funding_script)
        tx == Transaction(Version_TWO, LockTime_ZERO, <<>>, <<output>>)
        psbt == from_unsigned_tx(tx)
    IN  [psbt EXCEPT !.outputs[1].witness_script = Some(self.funding_script)]

\* ChannelParams::funding_psbt
funding_psbt(self) ==
    LET output == TxOut(self.capacity, new_p2wsh(self.funding_script))
        tx == Transaction(Version_TWO, LockTime_ZERO, <<>>, <<output>>)
        psbt == from_unsigned_tx(tx)
    IN  [psbt EXCEPT !.outputs[1].witness_script = Some(self.funding_script)]

\* a verifier that refuses under-funding only
verify_funding_tx_underfunded(self, tx, outpoint) ==
    IF compute_txid(tx) # outpoint.txid THEN Err("Funding", "TxidMismatch")
    ELSE IF ~(outpoint.vout + 1 \in 1..Len(tx.output))
    THEN Err("Funding", "OutputNotFound")
    ELSE LET output == tx.output[outpoint.vout + 1] IN
    IF output.value < self.capacity THEN Err("Funding", "ValueMismatch")
    ELSE IF output.script_pubkey # new_p2wsh(self.funding_script)
    THEN Err("Funding", "ScriptMismatch")
    ELSE Ok([params |-> self,
             funding_outpoint |-> outpoint,
             funding_utxo |-> output,
             sent |-> 0])

\* a verifier that checks the claimed output but records the first one
verify_funding_tx_first_output(self, tx, outpoint) ==
    IF compute_txid(tx) # outpoint.txid THEN Err("Funding", "TxidMismatch")
    ELSE IF ~(outpoint.vout + 1 \in 1..Len(tx.output))
    THEN Err("Funding", "OutputNotFound")
    ELSE LET output == tx.output[outpoint.vout + 1] IN
    IF output.value # self.capacity THEN Err("Funding", "ValueMismatch")
    ELSE IF output.script_pubkey # new_p2wsh(self.funding_script)
    THEN Err("Funding", "ScriptMismatch")
    ELSE Ok([params |-> self,
             funding_outpoint |-> outpoint,
             funding_utxo |-> tx.output[1],
             sent |-> 0])

\* ChannelParams::verify_funding_tx
verify_funding_tx(self, tx, outpoint) ==
    IF compute_txid(tx) # outpoint.txid THEN Err("Funding", "TxidMismatch")
    ELSE IF ~(outpoint.vout + 1 \in 1..Len(tx.output))
    THEN Err("Funding", "OutputNotFound")
    ELSE LET output == tx.output[outpoint.vout + 1] IN
    IF output.value # self.capacity THEN Err("Funding", "ValueMismatch")
    ELSE IF output.script_pubkey # new_p2wsh(self.funding_script)
    THEN Err("Funding", "ScriptMismatch")
    ELSE Ok([params |-> self,
             funding_outpoint |-> outpoint,
             funding_utxo |-> output,
             sent |-> 0])

\* a refund template whose input is final
refund_psbt_final_sequence(self) ==
    LET input == TxIn(self.funding_outpoint, Sequence_MAX)
        tx == Transaction(Version_TWO, LockTime_ZERO, <<input>>, <<>>)
        psbt == from_unsigned_tx(tx)
    IN  [psbt EXCEPT !.inputs[1].witness_utxo = Some(self.funding_utxo),
                     !.inputs[1].witness_script = Some(self.params.funding_script)]

\* Channel::refund_psbt
refund_psbt(self) ==
    LET input == TxIn(self.funding_outpoint, self.params.refund_locktime)
        tx == Transaction(Version_TWO, LockTime_ZERO, <<input>>, <<>>)
        psbt == from_unsigned_tx(tx)
    IN  [psbt EXCEPT !.inputs[1].witness_utxo = Some(self.funding_utxo),
                     !.inputs[1].witness_script = Some(self.params.funding_script)]

(* -------------------------- channel/payment.rs ------------------------- *)
\* a next_payment that does not take the fee out of the change
next_payment_fee_in_change(self, amount, fee) ==
    LET sum1 == AmountAdd(amount, self.sent) IN
    IF ~IsSome(sum1) THEN Panic
    ELSE LET sum2 == AmountAdd(Unwrap(sum1), fee) IN
    IF ~IsSome(sum2) THEN Panic
    ELSE LET required == Unwrap(sum2) IN
    IF required > self.params.capacity
    THEN ErrWith("Payment", "ExceedsCapacity",
                 [available |-> self.params.capacity, required |-> required])
    ELSE LET payee_hash == wpubkey_hash(self.params.payee)
             payer_hash == wpubkey_hash(self.params.payer)
         IN
    IF ~IsOk(payee_hash) THEN payee_hash
    ELSE IF ~IsOk(payer_hash) THEN payer_hash
    ELSE LET input == TxIn(self.funding_outpoint, Sequence_MAX)
             payment == TxOut(amount + self.sent, new_p2wpkh(payee_hash.val))
             change == TxOut(self.params.capacity - Unwrap(sum1), new_p2wpkh(payer_hash.val))
             tx == Transaction(Version_TWO, LockTime_ZERO, <<input>>, <<payment, change>>)
             psbt == from_unsigned_tx(tx)
         IN Ok([psbt EXCEPT
                  !.inputs[1].witness_script = Some(self.params.funding_script),
                  !.inputs[1].witness_utxo = Some(self.funding_utxo)])

\* a next_payment that pays the payee the increment, not the running total
next_payment_incremental(self, amount, fee) ==
    LET sum1 == AmountAdd(amount, self.sent) IN
    IF ~IsSome(sum1) THEN Panic
    ELSE LET sum2 == AmountAdd(Unwrap(sum1), fee) IN
    IF ~IsSome(sum2) THEN Panic
    ELSE LET required == Unwrap(sum2) IN
    IF required > self.params.capacity
    THEN ErrWith("Payment", "ExceedsCapacity",
                 [available |-> self.params.capacity, required |-> required])
    ELSE LET payee_hash == wpubkey_hash(self.params.payee)
             payer_hash == wpubkey_hash(self.params.payer)
         IN
    IF ~IsOk(payee_hash) THEN payee_hash
    ELSE IF ~IsOk(payer_hash) THEN payer_hash
    ELSE LET input == TxIn(self.funding_outpoint, Sequence_MAX)
             payment == TxOut(amount, new_p2wpkh(payee_hash.val))
             change == TxOut(self.params.capacity - required, new_p2wpkh(payer_hash.val))
             tx == Transaction(Version_TWO, LockTime_ZERO, <<input>>, <<payment, change>>)
             psbt == from_unsigned_tx(tx)
         IN Ok([psbt EXCEPT
                  !.inputs[1].witness_script = Some(self.params.funding_script),
                  !.inputs[1].witness_utxo = Some(self.funding_utxo)])

\* a next_payment that gives its input the sequence of the refund
next_payment_refund_sequence(self, amount, fee) ==
    LET sum1 == AmountAdd(amount, self.sent) IN
    IF ~IsSome(sum1) THEN Panic
    ELSE LET sum2 == AmountAdd(Unwrap(sum1), fee) IN
    IF ~IsSome(sum2) THEN Panic
    ELSE LET required == Unwrap(sum2) IN
    IF required > self.params.capacity
    THEN ErrWith("Payment", "ExceedsCapacity",
                 [available |-> self.params.capacity, required |-> required])
    ELSE LET payee_hash == wpubkey_hash(self.params.payee)
             payer_hash == wpubkey_hash(self.params.payer)
         IN
    IF ~IsOk(payee_hash) THEN payee_hash
    ELSE IF ~IsOk(payer_hash) THEN payer_hash
    ELSE LET input == TxIn(self.funding_outpoint, self.params.refund_locktime)
             payment == TxOut(amount + self.sent, new_p2wpkh(payee_hash.val))
             change == TxOut(self.params.capacity - required, new_p2wpkh(payer_hash.val))
             tx == Transaction(Version_TWO, LockTime_ZERO, <<input>>, <<payment, change>>)
             psbt == from_unsigned_tx(tx)
         IN Ok([psbt EXCEPT
                  !.inputs[1].witness_script = Some(self.params.funding_script),
                  !.inputs[1].witness_utxo = Some(self.funding_utxo)])

\* Channel::next_payment
next_payment(self, amount, fee) ==
    LET sum1 == AmountAdd(amount, self.sent) IN
    IF ~IsSome(sum1) THEN Panic
    ELSE LET sum2 == AmountAdd(Unwrap(sum1), fee) IN
    IF ~IsSome(sum2) THEN Panic
    ELSE LET required == Unwrap(sum2) IN
    IF required > self.params.capacity
    THEN ErrWith("Payment", "ExceedsCapacity",
                 [available |-> self.params.capacity, required |-> required])
    ELSE LET payee_hash == wpubkey_hash(self.params.payee)
             payer_hash == wpubkey_hash(self.params.payer)
         IN
    IF ~IsOk(payee_hash) THEN payee_hash
    ELSE IF ~IsOk(payer_hash) THEN payer_hash
    ELSE LET input == TxIn(self.funding_outpoint, Sequence_MAX)
             payment == TxOut(amount + self.sent, new_p2wpkh(payee_hash.val))
             change == TxOut(self.params.capacity - required, new_p2wpkh(payer_hash.val))
             tx == Transaction(Version_TWO, LockTime_ZERO, <<input>>, <<payment, change>>)
             psbt == from_unsigned_tx(tx)
         IN Ok([psbt EXCEPT
                  !.inputs[1].witness_script = Some(self.params.funding_script),
                  !.inputs[1].witness_utxo = Some(self.funding_utxo)])

(* --------------------------- channel/verify.rs ------------------------- *)
\* the tests of verify_payment_psbt, each TRUE when the artifact is refused
too_many_inputs(psbt) == Len(psbt.inputs) > 1
no_input(psbt) == Len(psbt.unsigned_tx.input) = 0
\* a verifier that lets a total equal to sent through
not_incremental_strict(new_payment_amount, sent) == new_payment_amount < sent
not_incremental(new_payment_amount, sent) == new_payment_amount <= sent
outputs_exceed(total_output, capacity) == total_output > capacity
sighash_refused(ty) == ty # SIGHASH_ALL /\ ty = SIGHASH_ALL_ACP

\* an outpoint test that looks at the txid alone
outpoint_differs_txid_only(outpoint, funding_outpoint) ==
    outpoint.txid # funding_outpoint.txid
outpoint_differs(outpoint, funding_outpoint) == outpoint # funding_outpoint

\* the last output paying payee_script, not the first
RECURSIVE find_output_last(_, _)
find_output_last(outs, payee_script) ==
    IF Len(outs) = 0 THEN None
    ELSE IF outs[Len(outs)].script_pubkey = payee_script THEN Some(outs[Len(outs)])
    ELSE find_output_last(SubSeq(outs, 1, Len(outs) - 1), payee_script)

\* the first output paying payee_script: `.iter().find(..)`
RECURSIVE find_output(_, _)
find_output(outs, payee_script) ==
    IF Len(outs) = 0 THEN None
    ELSE IF Head(outs).script_pubkey = payee_script THEN Some(Head(outs))
    ELSE find_output(Tail(outs), payee_script)

\* the PaymentInfo verify_payment_psbt returns; both subtractions are checked
payment_info(new_payment_amount, sent, capacity, total_output) ==
    LET current == AmountSub(new_payment_amount, sent)
        fee == AmountSub(capacity, total_output)
    IN IF ~IsSome(current) \/ ~IsSome(fee) THEN Panic
       ELSE Ok([total |-> new_payment_amount,
                current |-> Unwrap(current),
                fee |-> Unwrap(fee)])

\* Channel::verify_payment_psbt; checks = the build has overflow checks
verify_payment_psbt(self, psbt, checks) ==
    LET tx == psbt.unsigned_tx IN
    IF too_many_inputs(psbt) THEN Err("Payment", "MultipleInputs")
    ELSE IF no_input(psbt) THEN Err("Payment", "MissingInput")
    ELSE IF outpoint_differs(tx.input[1].previous_output, self.funding_outpoint)
    THEN Err("Payment", "FundingOutpointMismatch")
    \* psbt.inputs[0] on an empty list: index out of bounds
    ELSE IF Len(psbt.inputs) = 0 THEN Panic
    ELSE LET in0 == psbt.inputs[1] IN
    IF ~IsSome(in0.witness_utxo) THEN Err("Payment", "MissingWitnessUtxo")
    ELSE IF Unwrap(in0.witness_utxo) # self.funding_utxo
    THEN Err("Payment", "WitnessUtxoMismatch")
    ELSE IF ~IsSome(in0.witness_script) THEN Err("Payment", "MissingWitnessScript")
    ELSE LET witness_script == Unwrap(in0.witness_script) IN
    IF witness_script # self.params.funding_script
    THEN Err("Payment", "WitnessScriptMismatch")
    ELSE IF tx.input[1].sequence # Sequence_MAX THEN Err("Payment", "InvalidSequence")
    ELSE IF tx.lock_time # LockTime_ZERO THEN Err("Payment", "NonZeroLocktime")
    ELSE LET payee_hash == wpubkey_hash(self.params.payee) IN
    IF ~IsOk(payee_hash) THEN payee_hash
    ELSE LET found == find_output(tx.output, new_p2wpkh(payee_hash.val)) IN
    IF ~IsSome(found) THEN Err("Payment", "MissingPayeeOutput")
    ELSE LET new_payment_amount == Unwrap(found).value IN
    IF not_incremental(new_payment_amount, self.sent)
    THEN Err("Payment", "PaymentNotIncremental")
    ELSE LET sum == AmountSum(tx.output, checks) IN
    IF ~IsSome(sum) THEN Panic
    ELSE LET total_output == Unwrap(sum) IN
    IF outputs_exceed(total_output, self.params.capacity)
    THEN Err("Payment", "OutputsExceedFundingAmount")
    ELSE IF ~(self.params.payer \in DOMAIN in0.partial_sigs)
    THEN Err("Payment", "MissingSignature")
    ELSE LET sig == in0.partial_sigs[self.params.payer] IN
    IF sighash_refused(sig.sighash_type) THEN Err("Payment", "InvalidSighash")
    ELSE LET msg == p2wsh_signature_hash(tx, witness_script, self.params.capacity,
                                         sig.sighash_type)
         IN
    IF ~verify_ecdsa(msg, sig, self.params.payer)
    THEN Err("Payment", "InvalidSignature")
    ELSE payment_info(new_payment_amount, self.sent, self.params.capacity, total_output)

\* an apply_payment that verifies against the Channel as it was opened
apply_payment_as_opened(self, psbt, checks) ==
    LET payment == verify_payment_psbt([self EXCEPT !.sent = 0], psbt, checks) IN
    IF IsOk(payment)
    THEN [self |-> [self EXCEPT !.sent = payment.val.total], ret |-> Ok(<<>>)]
    ELSE [self |-> self, ret |-> payment]

\* an apply_payment that verifies and reports, but does not record
apply_payment_unrecorded(self, psbt, checks) ==
    LET payment == verify_payment_psbt(self, psbt, checks) IN
    IF IsOk(payment)
    THEN [self |-> self, ret |-> Ok(<<>>)]
    ELSE [self |-> self, ret |-> payment]

\* an apply_payment that records the increment in place of the total
apply_payment_current(self, psbt, checks) ==
    LET payment == verify_payment_psbt(self, psbt, checks) IN
    IF IsOk(payment)
    THEN [self |-> [self EXCEPT !.sent = payment.val.current], ret |-> Ok(<<>>)]
    ELSE [self |-> self, ret |-> payment]

\* Channel::apply_payment: the new Channel and the returned value
apply_payment(self, psbt, checks) ==
    LET payment == verify_payment_psbt(self, psbt, checks) IN
    IF IsOk(payment)
    THEN [self |-> [self EXCEPT !.sent = payment.val.total], ret |-> Ok(<<>>)]
    ELSE [self |-> self, ret |-> payment]

(* -------------------------- channel/finalize.rs ------------------------ *)
\* one element of a witness stack
WitnessItem(kd, sig, n, script) == [kind |-> kd, der |-> sig, byte |-> n, script |-> script]
\* vec![] and vec![n]
EmptyItem == WitnessItem("empty", None, 0, None)
ByteItem(n) == WitnessItem("byte", None, n, None)
\* sig.signature.serialize_der() followed by sig.sighash_type.to_u32() as u8
SigItem(sig) ==
    WitnessItem("sig", Some([signer |-> sig.signer, msg |-> sig.msg]),
                sig.sighash_type % 256, None)
\* witness_script.to_bytes()
ScriptItem(script) == WitnessItem("script", None, 0, Some(script))

\* a refund finalizer that pushes the Channel's own script
finalize_refund_tx_own_script(self, psbt) ==
    IF Len(psbt.inputs) = 0 THEN [psbt |-> psbt, ret |-> Panic]
    ELSE LET input == psbt.inputs[1] IN
    IF ~(self.params.payer \in DOMAIN input.partial_sigs)
    THEN [psbt |-> psbt,
          ret |-> ErrWith("Finalize", "MissingSignature", self.params.payer)]
    ELSE IF ~IsSome(input.witness_script)
    THEN [psbt |-> psbt, ret |-> Err("Finalize", "MissingWitnessScript")]
    ELSE LET witness == << SigItem(input.partial_sigs[self.params.payer]),
                           ByteItem(0),
                           ScriptItem(self.params.funding_script) >>
         IN [psbt |-> [psbt EXCEPT !.inputs[1].final_script_witness = Some(witness),
                                   !.inputs[1].partial_sigs = <<>>],
             ret |-> Ok(<<>>)]

\* a refund finalizer that takes the signatures out before it looks for the
\* witness script
finalize_refund_tx_takes_sigs(self, psbt) ==
    IF Len(psbt.inputs) = 0 THEN [psbt |-> psbt, ret |-> Panic]
    ELSE LET input == psbt.inputs[1] IN
    IF ~(self.params.payer \in DOMAIN input.partial_sigs)
    THEN [psbt |-> psbt,
          ret |-> ErrWith("Finalize", "MissingSignature", self.params.payer)]
    ELSE IF ~IsSome(input.witness_script)
    THEN [psbt |-> [psbt EXCEPT !.inputs[1].partial_sigs = <<>>],
          ret |-> Err("Finalize", "MissingWitnessScript")]
    ELSE LET witness == << SigItem(input.partial_sigs[self.params.payer]),
                           ByteItem(0),
                           ScriptItem(Unwrap(input.witness_script)) >>
         IN [psbt |-> [psbt EXCEPT !.inputs[1].final_script_witness = Some(witness),
                                   !.inputs[1].partial_sigs = <<>>],
             ret |-> Ok(<<>>)]

\* a refund finalizer that removes only the signature it used
finalize_refund_tx_clears_used(self, psbt) ==
    IF Len(psbt.inputs) = 0 THEN [psbt |-> psbt, ret |-> Panic]
    ELSE LET input == psbt.inputs[1] IN
    IF ~(self.params.payer \in DOMAIN input.partial_sigs)
    THEN [psbt |-> psbt,
          ret |-> ErrWith("Finalize", "MissingSignature", self.params.payer)]
    ELSE IF ~IsSome(input.witness_script)
    THEN [psbt |-> psbt, ret |-> Err("Finalize", "MissingWitnessScript")]
    ELSE LET witness == << SigItem(input.partial_sigs[self.params.payer]),
                           ByteItem(0),
                           ScriptItem(Unwrap(input.witness_script)) >>
         IN [psbt |-> [psbt EXCEPT
                         !.inputs[1].final_script_witness = Some(witness),
                         !.inputs[1].partial_sigs =
                             [k \in DOMAIN @ \ {self.params.payer} |-> @[k]]],
             ret |-> Ok(<<>>)]

\* a refund finalizer that also pushes the payee's signature when it is there
finalize_refund_tx_with_payee(self, psbt) ==
    IF Len(psbt.inputs) = 0 THEN [psbt |-> psbt, ret |-> Panic]
    ELSE LET input == psbt.inputs[1] IN
    IF ~(self.params.payer \in DOMAIN input.partial_sigs)
    THEN [psbt |-> psbt,
          ret |-> ErrWith("Finalize", "MissingSignature", self.params.payer)]
    ELSE IF ~IsSome(input.witness_script)
    THEN [psbt |-> psbt, ret |-> Err("Finalize", "MissingWitnessScript")]
    ELSE LET witness == << SigItem(input.partial_sigs[self.params.payer]) >>
                        \o (IF self.params.payee \in DOMAIN input.partial_sigs
                            THEN << SigItem(input.partial_sigs[self.params.payee]) >>
                            ELSE << >>)
                        \o << ByteItem(0),
                              ScriptItem(Unwrap(input.witness_script)) >>
         IN [psbt |-> [psbt EXCEPT !.inputs[1].final_script_witness = Some(witness),
                                   !.inputs[1].partial_sigs = <<>>],
             ret |-> Ok(<<>>)]

\* Channel::finalize_refund_tx: the PSBT afterwards and the returned value
finalize_refund_tx(self, psbt) ==
    \* psbt.inputs[0] on an empty list: index out of bounds
    IF Len(psbt.inputs) = 0 THEN [psbt |-> psbt, ret |-> Panic]
    ELSE LET input == psbt.inputs[1] IN
    IF ~(self.params.payer \in DOMAIN input.partial_sigs)
    THEN [psbt |-> psbt,
          ret |-> ErrWith("Finalize", "MissingSignature", self.params.payer)]
    ELSE IF ~IsSome(input.witness_script)
    THEN [psbt |-> psbt, ret |-> Err("Finalize", "MissingWitnessScript")]
    ELSE LET witness == << SigItem(input.partial_sigs[self.params.payer]),
                           ByteItem(0),
                           ScriptItem(Unwrap(input.witness_script)) >>
         IN [psbt |-> [psbt EXCEPT !.inputs[1].final_script_witness = Some(witness),
                                   !.inputs[1].partial_sigs = <<>>],
             ret |-> Ok(<<>>)]

\* a payment finalizer that looks for the witness script first
finalize_payment_tx_script_first(self, psbt) ==
    IF Len(psbt.inputs) = 0 THEN [psbt |-> psbt, ret |-> Panic]
    ELSE LET input == psbt.inputs[1] IN
    IF ~IsSome(input.witness_script)
    THEN [psbt |-> psbt, ret |-> Err("Finalize", "MissingWitnessScript")]
    ELSE IF ~(self.params.payer \in DOMAIN input.partial_sigs)
    THEN [psbt |-> psbt,
          ret |-> ErrWith("Finalize", "MissingSignature", self.params.payer)]
    ELSE IF ~(self.params.payee \in DOMAIN input.partial_sigs)
    THEN [psbt |-> psbt,
          ret |-> ErrWith("Finalize", "MissingSignature", self.params.payee)]
    ELSE LET witness == << EmptyItem,
                           SigItem(input.partial_sigs[self.params.payer]),
                           SigItem(input.partial_sigs[self.params.payee]),
                           ByteItem(1),
                           ScriptItem(Unwrap(input.witness_script)) >>
         IN [psbt |-> [psbt EXCEPT !.inputs[1].final_script_witness = Some(witness),
                                   !.inputs[1].partial_sigs = <<>>],
             ret |-> Ok(<<>>)]

\* a payment finalizer that pushes the payee's signature first
finalize_payment_tx_payee_first(self, psbt) ==
    IF Len(psbt.inputs) = 0 THEN [psbt |-> psbt, ret |-> Panic]
    ELSE LET input == psbt.inputs[1] IN
    IF ~(self.params.payer \in DOMAIN input.partial_sigs)
    THEN [psbt |-> psbt,
          ret |-> ErrWith("Finalize", "MissingSignature", self.params.payer)]
    ELSE IF ~(self.params.payee \in DOMAIN input.partial_sigs)
    THEN [psbt |-> psbt,
          ret |-> ErrWith("Finalize", "MissingSignature", self.params.payee)]
    ELSE IF ~IsSome(input.witness_script)
    THEN [psbt |-> psbt, ret |-> Err("Finalize", "MissingWitnessScript")]
    ELSE LET witness == << EmptyItem,
                           SigItem(input.partial_sigs[self.params.payee]),
                           SigItem(input.partial_sigs[self.params.payer]),
                           ByteItem(1),
                           ScriptItem(Unwrap(input.witness_script)) >>
         IN [psbt |-> [psbt EXCEPT !.inputs[1].final_script_witness = Some(witness),
                                   !.inputs[1].partial_sigs = <<>>],
             ret |-> Ok(<<>>)]

\* Channel::finalize_payment_tx: the PSBT afterwards and the returned value
finalize_payment_tx(self, psbt) ==
    IF Len(psbt.inputs) = 0 THEN [psbt |-> psbt, ret |-> Panic]
    ELSE LET input == psbt.inputs[1] IN
    IF ~(self.params.payer \in DOMAIN input.partial_sigs)
    THEN [psbt |-> psbt,
          ret |-> ErrWith("Finalize", "MissingSignature", self.params.payer)]
    ELSE IF ~(self.params.payee \in DOMAIN input.partial_sigs)
    THEN [psbt |-> psbt,
          ret |-> ErrWith("Finalize", "MissingSignature", self.params.payee)]
    ELSE IF ~IsSome(input.witness_script)
    THEN [psbt |-> psbt, ret |-> Err("Finalize", "MissingWitnessScript")]
    ELSE LET witness == << EmptyItem,
                           SigItem(input.partial_sigs[self.params.payer]),
                           SigItem(input.partial_sigs[self.params.payee]),
                           ByteItem(1),
                           ScriptItem(Unwrap(input.witness_script)) >>
         IN [psbt |-> [psbt EXCEPT !.inputs[1].final_script_witness = Some(witness),
                                   !.inputs[1].partial_sigs = <<>>],
             ret |-> Ok(<<>>)]

(* ------------------------------- state --------------------------------- *)
VARIABLES
    chan,             \* the Channel: params, funding_outpoint, funding_utxo, sent
    psbt,             \* the PSBT the peers pass around
    result,           \* the call that has just returned and its value
    steps             \* edits made to psbt since it was built

vars == <<chan, psbt, result, steps>>

\* main(): the parameters both peers agree on
Params == ChannelParams_new(Alice, Bob, Capacity, Sequence_from_height(RefundHeight)).val
\* main(): the payer's wallet UTXO, and the funding transaction once
\* complete_funding_tx has added the wallet input and the change output
WalletOutpoint == OutPoint(compute_txid(Transaction(Version_TWO, LockTime_ZERO, <<>>, <<>>)), 0)
FundingTx ==
    LET tx == funding_psbt(Params).unsigned_tx IN
    [tx EXCEPT !.input = <<TxIn(WalletOutpoint, Sequence_MAX)>>,
               !.output = Append(tx.output, TxOut(1, new_p2wpkh(Alice.inner)))]
FundingOutpoint == OutPoint(compute_txid(FundingTx), 0)

Returned(op, ret) == [op |-> op, ret |-> ret]
\* no call is returning: the caller is free to make the next call or edit
Idle == Returned("", Nothing)
Aborted == result.ret.tag = "Panic"
Ready == result = Idle

Init ==
    /\ result = Returned("verify_funding_tx", verify_funding_tx(Params, FundingTx, FundingOutpoint))
    /\ chan = result.ret.val
    /\ psbt = funding_psbt(Params)
    /\ steps = 0

(* --------------------------- calls of the API -------------------------- *)
\* the amounts a caller passes: none, one unit, above the capacity, the largest
Amounts == {0, 1, Capacity + 1, AmountMax}
Fees == {0, 1}

\* a next_payment that already counts the payment it builds as sent
NextPayment_advancing(amount, fee) ==
    /\ Ready
    /\ LET r == next_payment(chan, amount, fee) IN
       /\ result' = Returned("next_payment", r)
       /\ psbt' = IF IsOk(r) THEN r.val ELSE psbt
       /\ steps' = IF IsOk(r) THEN 0 ELSE steps
       /\ chan' = IF IsOk(r) THEN [chan EXCEPT !.sent = amount + chan.sent] ELSE chan

NextPayment(amount, fee) ==
    /\ Ready
    /\ LET r == next_payment(chan, amount, fee) IN
       /\ result' = Returned("next_payment", r)
       /\ psbt' = IF IsOk(r) THEN r.val ELSE psbt
       /\ steps' = IF IsOk(r) THEN 0 ELSE steps
    /\ UNCHANGED chan

RefundPsbt ==
    /\ Ready
    /\ psbt' = refund_psbt(chan)
    /\ result' = Returned("refund_psbt", Ok(psbt'))
    /\ steps' = 0
    /\ UNCHANGED chan

\* checks: whether the build that runs the call has overflow checks
VerifyPaymentPsbt(checks) ==
    /\ Ready
    /\ result' = Returned("verify_payment_psbt", verify_payment_psbt(chan, psbt, checks))
    /\ UNCHANGED <<chan, psbt, steps>>

ApplyPayment(checks) ==
    /\ Ready
    /\ LET r == apply_payment(chan, psbt, checks) IN
       /\ chan' = r.self
       /\ result' = Returned("apply_payment", r.ret)
    /\ UNCHANGED <<psbt, steps>>

FinalizePaymentTx ==
    /\ Ready
    /\ LET r == finalize_payment_tx(chan, psbt) IN
       /\ psbt' = r.psbt
       /\ result' = Returned("finalize_payment_tx", r.ret)
    /\ UNCHANGED <<chan, steps>>

FinalizeRefundTx ==
    /\ Ready
    /\ LET r == finalize_refund_tx(chan, psbt) IN
       /\ psbt' = r.psbt
       /\ result' = Returned("finalize_refund_tx", r.ret)
    /\ UNCHANGED <<chan, steps>>

\* the caller takes the returned value and goes on; a process that has
\* aborted makes no further step
Continue ==
    /\ ~Ready
    /\ ~Aborted
    /\ result' = Idle
    /\ UNCHANGED <<chan, psbt, steps>>

(* ------------- the wallets and the counterparty edit the PSBT ---------- *)
\* an edit replaces the PSBT; nothing has been returned for the new one yet
Edit(new) ==
    /\ Ready
    /\ steps < MaxSteps
    /\ new # psbt
    /\ psbt' = new
    /\ steps' = steps + 1
    /\ result' = Idle
    /\ UNCHANGED chan

Insert(sigs, key, sig) ==
    [k \in DOMAIN sigs \cup {key} |-> IF k = key THEN sig ELSE sigs[k]]

\* main.rs sign_payment_tx / sign_refund_tx, for any sighash type: the signer
\* signs input 0 with the script and value the PSBT declares
Sign(signer, ty) ==
    /\ Len(psbt.unsigned_tx.input) >= 1
    /\ Len(psbt.inputs) >= 1
    /\ IsSome(psbt.inputs[1].witness_script)
    /\ IsSome(psbt.inputs[1].witness_utxo)
    /\ LET msg == p2wsh_signature_hash(psbt.unsigned_tx,
                                       Unwrap(psbt.inputs[1].witness_script),
                                       Unwrap(psbt.inputs[1].witness_utxo).value, ty)
           sig == Signature(signer.inner, msg, ty, psbt.unsigned_tx)
       IN Edit([psbt EXCEPT !.inputs[1].partial_sigs = Insert(@, signer, sig)])

\* the counterparty files the signature made by one key under the other key
RekeySig(from, to) ==
    /\ Len(psbt.inputs) >= 1
    /\ from \in DOMAIN psbt.inputs[1].partial_sigs
    /\ Edit([psbt EXCEPT !.inputs[1].partial_sigs = Insert(@, to, @[from])])

SetLockTime(l) ==
    Edit([psbt EXCEPT !.unsigned_tx.lock_time = l])

SetSequence(s) ==
    /\ Len(psbt.unsigned_tx.input) >= 1
    /\ Edit([psbt EXCEPT !.unsigned_tx.input[1].sequence = s])

SetPrevout(o) ==
    /\ Len(psbt.unsigned_tx.input) >= 1
    /\ Edit([psbt EXCEPT !.unsigned_tx.input[1].previous_output = o])

\* an input added to, or removed from, the transaction only
PushTxIn ==
    Edit([psbt EXCEPT !.unsigned_tx.input = Append(@, TxIn(WalletOutpoint, Sequence_MAX))])

PopTxIn ==
    /\ Len(psbt.unsigned_tx.input) >= 1
    /\ Edit([psbt EXCEPT !.unsigned_tx.input = SubSeq(@, 1, Len(@) - 1)])

\* an entry added to, or removed from, the per-input metadata only
PushInput ==
    Edit([psbt EXCEPT !.inputs = Append(@, InputDefault)])

PopInput ==
    /\ Len(psbt.inputs) >= 1
    /\ Edit([psbt EXCEPT !.inputs = SubSeq(@, 1, Len(@) - 1)])

SetWitnessUtxo(o) ==
    /\ Len(psbt.inputs) >= 1
    /\ Edit([psbt EXCEPT !.inputs[1].witness_utxo = o])

SetWitnessScript(o) ==
    /\ Len(psbt.inputs) >= 1
    /\ Edit([psbt EXCEPT !.inputs[1].witness_script = o])

SetOutputValue(i, v) ==
    /\ i \in 1..Len(psbt.unsigned_tx.output)
    /\ Edit([psbt EXCEPT !.unsigned_tx.output[i].value = v])

\* main.rs complete_refund_tx: an output is pushed with its metadata entry
PushOutput(v, s) ==
    Edit([psbt EXCEPT !.unsigned_tx.output = Append(@, TxOut(v, s)),
                      !.outputs = Append(@, OutputDefault)])

PopOutput ==
    /\ Len(psbt.unsigned_tx.output) >= 1
    /\ Len(psbt.outputs) >= 1
    /\ Edit([psbt EXCEPT !.unsigned_tx.output = SubSeq(@, 1, Len(@) - 1),
                         !.outputs = SubSeq(@, 1, Len(@) - 1)])

\* what the counterparty chooses from
OutputValues == {0, AmountMax}
PushedScripts == {new_p2wpkh(Bob.inner), OtherScript}
Sequences == {Sequence_MAX, Sequence_from_height(RefundHeight)}
OtherOutpoints ==
    {OutPoint(FundingOutpoint.txid, 1), OutPoint(WalletOutpoint.txid, 0)}
WitnessUtxos ==
    {None,
     Some(TxOut(Capacity - 1, new_p2wsh(Params.funding_script))),
     Some(TxOut(Capacity, OtherScript))}
WitnessScripts ==
    {None, Some(FundingScript(Bob, Alice, Sequence_from_height(RefundHeight)))}

Next ==
    \/ \E amount \in Amounts, fee \in Fees : NextPayment(amount, fee)
    \/ RefundPsbt
    \/ \E checks \in BOOLEAN : VerifyPaymentPsbt(checks)
    \/ \E checks \in BOOLEAN : ApplyPayment(checks)
    \/ FinalizePaymentTx
    \/ FinalizeRefundTx
    \/ Continue
    \/ SetLockTime(1)
    \/ \E s \in Sequences : SetSequence(s)
    \/ \E o \in OtherOutpoints : SetPrevout(o)
    \/ PushTxIn
    \/ PopTxIn
    \/ PushInput
    \/ PopInput
    \/ \E o \in WitnessUtxos : SetWitnessUtxo(o)
    \/ \E o \in WitnessScripts : SetWitnessScript(o)
    \/ \E i \in 1..2, v \in OutputValues : SetOutputValue(i, v)
    \/ \E s \in PushedScripts : PushOutput(1, s)
    \/ PopOutput
    \/ Sign(Alice, SIGHASH_ALL)
    \/ Sign(Bob, SIGHASH_ALL)
    \/ \E ty \in SighashTypes \ {SIGHASH_ALL} : Sign(Alice, ty)
    \/ RekeySig(Bob, Alice)

Spec == Init /\ [][Next]_vars

(* ---------------- setting a channel up (main.rs 26 to 56) -------------- *)
\* In this phase no Channel exists yet: chan is None until verify_funding_tx
\* returns one, and result also records the arguments of the call.
Called(op, args, ret) == [op |-> op, args |-> args, ret |-> ret]

\* a key in uncompressed encoding
Carol == PublicKey("carol", FALSE)
Payers == {Alice, Carol}
Payees == {Bob, Carol}
Capacities == {0, 1, Capacity}
\* a Sequence keeps its lock value in the low 16 bits (to_relative_lock_time)
SEQUENCE_LOCKTIME_MASK == 2 ^ 16 - 1
\* the zero of each encoding, two proper delays, a value whose lock value
\* is zero although it is none of the three zeros, and Sequence::MAX
RefundLocktimes ==
    {Sequence_ZERO,
     Sequence_from_512_second_intervals(0),
     Sequence_from_height(RefundHeight),
     Sequence_from_512_second_intervals(1),
     SEQUENCE_LOCKTIME_MASK + 1,
     Sequence_MAX}
\* every ChannelParams value there is: the fields are private, so each one
\* was returned by ChannelParams::new
Configurations ==
    {ChannelParams_new(x[1], x[2], x[3], x[4]).val :
        x \in {y \in Payers \X Payees \X Capacities \X RefundLocktimes :
                 IsOk(ChannelParams_new(y[1], y[2], y[3], y[4]))}}

\* the PSBT in hand before any template was asked for
BlankPsbt == from_unsigned_tx(Transaction(Version_TWO, LockTime_ZERO, <<>>, <<>>))

SetupInit ==
    /\ result = Idle
    /\ chan = None
    /\ psbt = BlankPsbt
    /\ steps = 0

New(payer, payee, capacity, refund_locktime) ==
    /\ Ready
    /\ chan = None
    /\ result' = Called("ChannelParams_new",
                        <<payer, payee, capacity, refund_locktime>>,
                        ChannelParams_new(payer, payee, capacity, refund_locktime))
    /\ UNCHANGED <<chan, psbt, steps>>

FundingPsbt(self) ==
    /\ Ready
    /\ chan = None
    /\ psbt' = funding_psbt(self)
    /\ result' = Called("funding_psbt", <<self>>, Ok(psbt'))
    /\ steps' = 0
    /\ UNCHANGED chan

\* main.rs complete_funding_tx: the wallet input and the change output; a
\* wallet may also put its change output first
CompleteFundingTx(change_first) ==
    /\ chan = None
    /\ Len(psbt.unsigned_tx.output) >= 1
    /\ LET txin == TxIn(WalletOutpoint, Sequence_MAX)
           txout == TxOut(1, new_p2wpkh(Alice.inner))
       IN Edit([psbt EXCEPT
                  !.inputs = Append(@, InputDefault),
                  !.unsigned_tx.input = Append(@, txin),
                  !.outputs = IF change_first THEN <<OutputDefault>> \o @
                              ELSE Append(@, OutputDefault),
                  !.unsigned_tx.output = IF change_first THEN <<txout>> \o @
                                         ELSE Append(@, txout)])

\* the payee verifies the transaction of the PSBT in hand against the
\* outpoint the payer claims
VerifyFundingTx(self, outpoint) ==
    /\ Ready
    /\ chan = None
    /\ LET r == verify_funding_tx(self, psbt.unsigned_tx, outpoint) IN
       /\ result' = Called("verify_funding_tx", <<self, psbt.unsigned_tx, outpoint>>, r)
       /\ chan' = IF IsOk(r) THEN Some(r.val) ELSE chan
    /\ UNCHANGED <<psbt, steps>>

SetupNext ==
    \/ \E payer \in Payers, payee \in Payees, capacity \in Capacities,
          refund_locktime \in RefundLocktimes :
          New(payer, payee, capacity, refund_locktime)
    \/ \E self \in Configurations : FundingPsbt(self)
    \/ \E change_first \in BOOLEAN : CompleteFundingTx(change_first)
    \/ \E v \in OutputValues : chan = None /\ SetOutputValue(1, v)
    \/ chan = None /\ PopOutput
    \/ \E self \in Configurations, vout \in 0..2 :
          VerifyFundingTx(self, OutPoint(compute_txid(psbt.unsigned_tx), vout))
    \/ \E self \in Configurations :
          VerifyFundingTx(self, OutPoint(WalletOutpoint.txid, 0))
    \/ Continue

SetupSpec == SetupInit /\ [][SetupNext]_vars

(* ------------- a channel from its parameters to its closing ------------ *)
\* The setting up above, followed by the calls made on the Channel that
\* verify_funding_tx returned (main.rs 56 to 100); chan is Some(channel).
Opened == chan # None

ChannelNextPayment(amount, fee) ==
    /\ Ready
    /\ Opened
    /\ LET r == next_payment(Unwrap(chan), amount, fee) IN
       /\ result' = Called("next_payment", <<amount, fee>>, r)
       /\ psbt' = IF IsOk(r) THEN r.val ELSE psbt
       /\ steps' = IF IsOk(r) THEN 0 ELSE steps
    /\ UNCHANGED chan

ChannelRefundPsbt ==
    /\ Ready
    /\ Opened
    /\ psbt' = refund_psbt(Unwrap(chan))
    /\ result' = Called("refund_psbt", <<>>, Ok(psbt'))
    /\ steps' = 0
    /\ UNCHANGED chan

ChannelVerifyPaymentPsbt(checks) ==
    /\ Ready
    /\ Opened
    /\ result' = Called("verify_payment_psbt", <<psbt>>,
                        verify_payment_psbt(Unwrap(chan), psbt, checks))
    /\ UNCHANGED <<chan, psbt, steps>>

ChannelApplyPayment(checks) ==
    /\ Ready
    /\ Opened
    /\ LET r == apply_payment(Unwrap(chan), psbt, checks) IN
       /\ chan' = Some(r.self)
       /\ result' = Called("apply_payment", <<psbt>>, r.ret)
    /\ UNCHANGED <<psbt, steps>>

ChannelFinalizePaymentTx ==
    /\ Ready
    /\ Opened
    /\ LET r == finalize_payment_tx(Unwrap(chan), psbt) IN
       /\ psbt' = r.psbt
       /\ result' = Called("finalize_payment_tx", <<psbt>>, r.ret)
    /\ UNCHANGED <<chan, steps>>

ChannelFinalizeRefundTx ==
    /\ Ready
    /\ Opened
    /\ LET r == finalize_refund_tx(Unwrap(chan), psbt) IN
       /\ psbt' = r.psbt
       /\ result' = Called("finalize_refund_tx", <<psbt>>, r.ret)
    /\ UNCHANGED <<chan, steps>>

ChannelNext ==
    \/ SetupNext
    \/ \E amount \in Amounts, fee \in Fees : ChannelNextPayment(amount, fee)
    \/ ChannelRefundPsbt
    \/ \E checks \in BOOLEAN : ChannelVerifyPaymentPsbt(checks)
    \/ \E checks \in BOOLEAN : ChannelApplyPayment(checks)
    \/ ChannelFinalizePaymentTx
    \/ ChannelFinalizeRefundTx
    \/ Opened /\ Sign(Alice, SIGHASH_ALL)
    \/ Opened /\ Sign(Bob, SIGHASH_ALL)
    \/ Opened /\ SetWitnessScript(None)

ChannelSpec == SetupInit /\ [][ChannelNext]_vars

(* ------------------------------ properties ----------------------------- *)
\* the PSBT and the Channel as the properties read them
Tx == psbt.unsigned_tx
Cap == chan.params.capacity
Verified == result.op = "verify_payment_psbt"
Accepted == Verified /\ IsOk(result.ret)
Rejected(kind) == IsErr(result.ret, "Payment", kind)
PayeeScript == new_p2wpkh(chan.params.payee.inner)
PayeeOutputs == {i \in 1..Len(Tx.output) : Tx.output[i].script_pubkey = PayeeScript}
HasPayeeOutput == PayeeOutputs # {}
PayeeValue == Tx.output[CHOOSE i \in PayeeOutputs : \A j \in PayeeOutputs : i <= j].value
HasPayerSig == Len(psbt.inputs) >= 1 /\ chan.params.payer \in DOMAIN psbt.inputs[1].partial_sigs
PayerSig == psbt.inputs[1].partial_sigs[chan.params.payer]
\* the digest of input 0 as the verifier has to recompute it
Digest(ty) == p2wsh_signature_hash(Tx, chan.params.funding_script, Cap, ty)
\* one input, bound to the funding output, final, and paying the payee
BoundToFunding ==
    /\ Len(Tx.input) = 1
    /\ Len(psbt.inputs) = 1
    /\ Tx.input[1].previous_output = chan.funding_outpoint
    /\ psbt.inputs[1].witness_utxo = Some(chan.funding_utxo)
    /\ psbt.inputs[1].witness_script = Some(chan.params.funding_script)
    /\ Tx.input[1].sequence = Sequence_MAX
    /\ Tx.lock_time = LockTime_ZERO
\* the payer signed exactly this transaction with SIGHASH_ALL
ValidlySigned ==
    /\ HasPayerSig
    /\ PayerSig.sighash_type = SIGHASH_ALL
    /\ PayerSig.signer = chan.params.payer.inner
    /\ PayerSig.msg = Digest(SIGHASH_ALL)
\* nothing is wrong with the artifact before its signature is looked at
SoundUpToSignature ==
    /\ BoundToFunding
    /\ HasPayeeOutput
    /\ PayeeValue > chan.sent
    /\ SumValues(Tx.output) <= Cap

\* C1: sent starts at 0, never decreases from one state to the next and
\* never exceeds capacity, whatever artifacts are verified and applied.
C1_SentMonotoneWithinCapacity ==
    [][chan'.sent >= chan.sent /\ chan'.sent <= chan'.params.capacity]_vars

\* C2: apply_payment sets sent to the verified total exactly when
\* verify_payment_psbt succeeds on the same Channel and PSBT; otherwise it
\* returns what verification returned and changes nothing.
C2_ApplyFollowsVerify ==
    [][result'.op = "apply_payment" =>
        \E checks \in BOOLEAN :
            LET v == verify_payment_psbt(chan, psbt, checks) IN
            /\ psbt' = psbt
            /\ IF IsOk(v)
               THEN chan' = [chan EXCEPT !.sent = v.val.total] /\ IsOk(result'.ret)
               ELSE chan' = chan /\ result'.ret = v]_vars
\* a failing apply_payment on a Channel that has already been paid
C2_Witness ==
    result.op = "apply_payment" /\ result.ret.tag = "Err" /\ chan.sent > 0

\* C3: an artifact whose payee output is not above sent is never accepted,
\* and is refused with PaymentNotIncremental when it is otherwise well
\* formed, even validly signed; an accepted total is strictly above sent.
C3_StrictlyIncremental ==
    Verified =>
        /\ IsOk(result.ret) =>
              /\ HasPayeeOutput
              /\ result.ret.val.total = PayeeValue
              /\ PayeeValue > chan.sent
        /\ (HasPayeeOutput /\ PayeeValue <= chan.sent) =>
              /\ ~IsOk(result.ret)
              /\ BoundToFunding => Rejected("PaymentNotIncremental")
\* a validly signed, well-formed artifact refused for its total alone
C3_Witness ==
    /\ Verified
    /\ Rejected("PaymentNotIncremental")
    /\ BoundToFunding
    /\ ValidlySigned
    /\ PayeeValue = chan.sent
    /\ chan.sent > 0

\* C4: an artifact whose output values sum to more than capacity is
\* refused with OutputsExceedFundingAmount; no accepted artifact has a
\* total output value above capacity.
C4_OutputSumWithinCapacity ==
    Verified =>
        /\ IsOk(result.ret) => SumValues(Tx.output) <= Cap
        /\ (SumValues(Tx.output) > Cap /\ BoundToFunding
             /\ HasPayeeOutput /\ PayeeValue > chan.sent)
              => Rejected("OutputsExceedFundingAmount")

\* C5: the payer signature of an accepted artifact declares SIGHASH_ALL;
\* every other declared type is refused, with InvalidSighash.
C5_OnlySighashAll ==
    Verified =>
        /\ IsOk(result.ret) => (HasPayerSig /\ PayerSig.sighash_type = SIGHASH_ALL)
        /\ (HasPayerSig /\ PayerSig.sighash_type # SIGHASH_ALL) =>
              /\ ~IsOk(result.ret)
              /\ SoundUpToSignature => Rejected("InvalidSighash")

\* C6: a payer signature of type ALL or ALL|ANYONECANPAY is not refused
\* with InvalidSighash; with any other type the artifact is not accepted,
\* and is refused with InvalidSighash once the signature is looked at.
C6_SighashAllOrAllAnyoneCanPay ==
    (Verified /\ HasPayerSig) =>
        IF PayerSig.sighash_type \in {SIGHASH_ALL, SIGHASH_ALL_ACP}
        THEN ~Rejected("InvalidSighash")
        ELSE /\ ~IsOk(result.ret)
             /\ SoundUpToSignature => Rejected("InvalidSighash")

\* C7: an accepted artifact carries a signature filed under payer_key,
\* made by payer_key over the recomputed digest of input 0, and made over
\* this transaction's contents; an otherwise sound artifact without one is
\* refused with MissingSignature, and one whose SIGHASH_ALL signature is
\* by another key or over another digest with InvalidSignature.
C7_PayerSignatureBinds ==
    Verified =>
        /\ IsOk(result.ret) =>
              /\ HasPayerSig
              /\ PayerSig.signer = chan.params.payer.inner
              /\ PayerSig.msg = Digest(PayerSig.sighash_type)
              /\ PayerSig.signed_tx = Tx
        /\ (SoundUpToSignature /\ ~HasPayerSig) => Rejected("MissingSignature")
        /\ (SoundUpToSignature /\ HasPayerSig
              /\ PayerSig.sighash_type = SIGHASH_ALL /\ ~ValidlySigned)
              => Rejected("InvalidSignature")

\* the check the specification lists first among those the artifact fails,
\* or "Ok" when it fails none
FirstFailingCheck ==
    IF Len(Tx.input) > 1 \/ Len(psbt.inputs) > 1 THEN "MultipleInputs"
    ELSE IF Len(Tx.input) = 0 THEN "MissingInput"
    ELSE IF Tx.input[1].previous_output # chan.funding_outpoint
    THEN "FundingOutpointMismatch"
    ELSE IF Len(psbt.inputs) = 0 \/ psbt.inputs[1].witness_utxo = None
    THEN "MissingWitnessUtxo"
    ELSE IF psbt.inputs[1].witness_utxo # Some(chan.funding_utxo)
    THEN "WitnessUtxoMismatch"
    ELSE IF psbt.inputs[1].witness_script = None THEN "MissingWitnessScript"
    ELSE IF psbt.inputs[1].witness_script # Some(chan.params.funding_script)
    THEN "WitnessScriptMismatch"
    ELSE IF Tx.input[1].sequence # Sequence_MAX THEN "InvalidSequence"
    ELSE IF Tx.lock_time # LockTime_ZERO THEN "NonZeroLocktime"
    ELSE IF ~HasPayeeOutput THEN "MissingPayeeOutput"
    ELSE IF PayeeValue <= chan.sent THEN "PaymentNotIncremental"
    ELSE IF SumValues(Tx.output) > Cap THEN "OutputsExceedFundingAmount"
    ELSE IF ~HasPayerSig THEN "MissingSignature"
    ELSE IF PayerSig.sighash_type # SIGHASH_ALL THEN "InvalidSighash"
    ELSE IF ~(PayerSig.signer = chan.params.payer.inner
              /\ PayerSig.msg = Digest(PayerSig.sighash_type))
    THEN "InvalidSignature"
    ELSE "Ok"

\* C8: verification returns the error of the first check the artifact
\* fails, in the specified order, and succeeds iff it fails none.
C8_FirstFailingCheckIsReported ==
    Verified =>
        IF FirstFailingCheck = "Ok" THEN IsOk(result.ret)
        ELSE Rejected(FirstFailingCheck)

\* C9: a transaction with more than one input is refused with
\* MultipleInputs and one with none with MissingInput, whatever the length
\* of the per-input metadata; an accepted transaction has exactly one input.
C9_ExactlyOneInput ==
    Verified =>
        /\ Len(Tx.input) > 1 => Rejected("MultipleInputs")
        /\ Len(Tx.input) = 0 => Rejected("MissingInput")
        /\ IsOk(result.ret) => Len(Tx.input) = 1

\* C10: the facts returned on success are total = the payee output's value,
\* current = total - sent and fee = capacity - (sum of the output values),
\* with current > 0, fee >= 0 and total + fee <= capacity.
C10_PaymentFacts ==
    Accepted =>
        LET info == result.ret.val IN
        /\ HasPayeeOutput
        /\ info.total = PayeeValue
        /\ info.current = info.total - chan.sent
        /\ info.fee = Cap - SumValues(Tx.output)
        /\ info.current > 0
        /\ info.fee >= 0
        /\ info.total + info.fee <= Cap

\* C11: only apply_payment changes the Channel, and only its sent field:
\* next_payment, verify_payment_psbt, refund_psbt and the two finalizers
\* leave the whole Channel as it was, whether they succeed or fail, and
\* params, funding_outpoint and funding_utxo never change.
C11_OnlyApplyPaymentWritesSent ==
    [][/\ chan'.params = chan.params
       /\ chan'.funding_outpoint = chan.funding_outpoint
       /\ chan'.funding_utxo = chan.funding_utxo
       /\ chan'.sent # chan.sent => result'.op = "apply_payment"
       /\ result'.op \in {"next_payment", "verify_payment_psbt", "refund_psbt",
                          "finalize_payment_tx", "finalize_refund_tx"}
             => chan' = chan]_vars
\* a payment transaction finalized on a Channel that has been paid
C11_Witness ==
    result.op = "finalize_payment_tx" /\ IsOk(result.ret) /\ chan.sent > 0

\* verify_funding_tx has returned; its arguments
FundingVerified == result.op = "verify_funding_tx"
VerifyingParams == result.args[1]
FundingTxArg == result.args[2]
ClaimedOutpoint == result.args[3]
ClaimedOutput == FundingTxArg.output[ClaimedOutpoint.vout + 1]
\* the first funding check, in the specified order, that the call fails
FirstFailingFundingCheck ==
    IF compute_txid(FundingTxArg) # ClaimedOutpoint.txid THEN "TxidMismatch"
    ELSE IF ClaimedOutpoint.vout >= Len(FundingTxArg.output) THEN "OutputNotFound"
    ELSE IF ClaimedOutput.value # VerifyingParams.capacity THEN "ValueMismatch"
    ELSE IF ClaimedOutput.script_pubkey # new_p2wsh(VerifyingParams.funding_script)
    THEN "ScriptMismatch"
    ELSE "Ok"

\* C12: verify_funding_tx succeeds iff the four checks pass and otherwise
\* returns the error of the first failing one, in the order TxidMismatch,
\* OutputNotFound, ValueMismatch, ScriptMismatch.
C12_FirstFailingFundingCheckIsReported ==
    FundingVerified =>
        IF FirstFailingFundingCheck = "Ok" THEN IsOk(result.ret)
        ELSE IsErr(result.ret, "Funding", FirstFailingFundingCheck)
\* an over-funded output with a foreign script is refused for its value
C12_Witness ==
    /\ FundingVerified
    /\ IsErr(result.ret, "Funding", "ValueMismatch")
    /\ ClaimedOutput.value > VerifyingParams.capacity
    /\ ClaimedOutput.script_pubkey # new_p2wsh(VerifyingParams.funding_script)

\* C13: a successful verify_funding_tx returns a Channel with sent = 0, the
\* claimed outpoint, the transaction's output at that index (capacity, paid
\* to the P2WSH of the funding script) and the verifying parameters; the
\* transaction is left as it was and a failing call creates no Channel.
C13_NewChannel ==
    FundingVerified =>
        /\ psbt.unsigned_tx = FundingTxArg
        /\ IF IsOk(result.ret)
           THEN /\ chan = Some(result.ret.val)
                /\ result.ret.val.sent = 0
                /\ result.ret.val.funding_outpoint = ClaimedOutpoint
                /\ result.ret.val.funding_utxo = ClaimedOutput
                /\ ClaimedOutput.value = VerifyingParams.capacity
                /\ ClaimedOutput.script_pubkey = new_p2wsh(VerifyingParams.funding_script)
                /\ result.ret.val.params = VerifyingParams
           ELSE chan = None
\* a Channel created on the second output of the funding transaction
C13_Witness ==
    FundingVerified /\ IsOk(result.ret) /\ ClaimedOutpoint.vout = 1

\* ChannelParams::new has returned; its arguments
NewReturned == result.op = "ChannelParams_new"
PayerArg == result.args[1]
PayeeArg == result.args[2]
CapacityArg == result.args[3]
RefundLocktimeArg == result.args[4]
\* the first of the three conditions, in the specified order, that holds
FirstConfigError ==
    IF CapacityArg = 0 THEN "InvalidCapacity"
    ELSE IF ~PayerArg.compressed \/ ~PayeeArg.compressed THEN "UncompressedPublicKey"
    ELSE IF RefundLocktimeArg \in {Sequence_ZERO, Sequence_from_height(0),
                                   Sequence_from_512_second_intervals(0)}
    THEN "InvalidRefundLocktime"
    ELSE "Ok"

\* C14: ChannelParams::new fails with InvalidCapacity for a zero capacity,
\* with UncompressedPublicKey when a key is not compressed and with
\* InvalidRefundLocktime for the zero of any of the three encodings, the
\* first of these in that order; otherwise it succeeds and stores its
\* arguments and the funding script built from exactly these.
C14_FirstConfigErrorIsReported ==
    NewReturned =>
        IF FirstConfigError = "Ok"
        THEN /\ IsOk(result.ret)
             /\ result.ret.val.payer = PayerArg
             /\ result.ret.val.payee = PayeeArg
             /\ result.ret.val.capacity = CapacityArg
             /\ result.ret.val.refund_locktime = RefundLocktimeArg
             /\ result.ret.val.funding_script
                  = FundingScript(PayerArg, PayeeArg, RefundLocktimeArg)
        ELSE IsErr(result.ret, "Config", FirstConfigError)
\* all three conditions hold at once and the first is the one reported
C14_Witness ==
    /\ NewReturned
    /\ IsErr(result.ret, "Config", "InvalidCapacity")
    /\ ~PayeeArg.compressed
    /\ RefundLocktimeArg = Sequence_from_512_second_intervals(0)

\* what a Sequence means as a relative timelock: it is one only when the
\* disable flag (bit 31) is clear, and then its low 16 bits are the number
\* of blocks, or of 512-second intervals when the type flag is set. Of the
\* values used here only Sequence::MAX has the disable flag set.
IsRelativeLockTime(seq) == seq # Sequence_MAX
LockValue(seq) == seq % (SEQUENCE_LOCKTIME_MASK + 1)

\* C15: the refund_locktime of every accepted configuration is a relative
\* timelock that is enabled and non-zero, read as a raw sequence, as a
\* number of blocks and as a number of time intervals.
C15_RefundLocktimeIsNonZeroTimelock ==
    (NewReturned /\ IsOk(result.ret)) =>
        /\ result.ret.val.refund_locktime # Sequence_ZERO
        /\ IsRelativeLockTime(result.ret.val.refund_locktime)
        /\ LockValue(result.ret.val.refund_locktime) # 0

\* C16: next_payment(amount, fee) fails with ExceedsCapacity, reporting the
\* capacity and amount + sent + fee, iff amount + sent + fee exceeds the
\* capacity, and succeeds otherwise.
C16_ExceedsCapacityIff ==
    [][\A amount \in Amounts, fee \in Fees :
         NextPayment(amount, fee) =>
            IF amount + chan.sent + fee > Cap
            THEN result'.ret = ErrWith("Payment", "ExceedsCapacity",
                                       [available |-> Cap,
                                        required |-> amount + chan.sent + fee])
            ELSE IsOk(result'.ret)]_vars

\* C17: a successful next_payment(amount, fee) builds exactly two outputs:
\* amount + sent to the payee's P2WPKH script, then the change
\* capacity - (amount + sent + fee) to the payer's; they sum to
\* capacity - fee.
C17_TwoOutputs ==
    [][(result'.op = "next_payment" /\ IsOk(result'.ret)) =>
         \A amount \in Amounts, fee \in Fees :
            NextPayment(amount, fee) =>
            LET output == result'.ret.val.unsigned_tx.output IN
            /\ Len(output) = 2
            /\ output[1] = TxOut(amount + chan.sent, new_p2wpkh(chan.params.payee.inner))
            /\ output[2] = TxOut(Cap - (amount + chan.sent + fee),
                                 new_p2wpkh(chan.params.payer.inner))
            /\ SumValues(output) = Cap - fee]_vars
\* a template with a fee, built on a Channel that has been paid
C17_Witness ==
    /\ result.op = "next_payment"
    /\ IsOk(result.ret)
    /\ chan.sent > 0
    /\ result.ret.val.unsigned_tx.output[1].value > chan.sent
    /\ SumValues(result.ret.val.unsigned_tx.output) < Cap

\* C18: a template returned by next_payment has version 2, locktime 0 and
\* one input, which spends funding_outpoint with Sequence::MAX and carries
\* funding_utxo as witness UTXO, the funding script as witness script and
\* no signature.
C18_PaymentTemplate ==
    (result.op = "next_payment" /\ IsOk(result.ret)) =>
        LET template == result.ret.val IN
        /\ template.unsigned_tx.version = Version_TWO
        /\ template.unsigned_tx.lock_time = LockTime_ZERO
        /\ template.unsigned_tx.input = <<TxIn(chan.funding_outpoint, Sequence_MAX)>>
        /\ Len(template.inputs) = 1
        /\ template.inputs[1].witness_utxo = Some(chan.funding_utxo)
        /\ template.inputs[1].witness_script = Some(chan.params.funding_script)
        /\ DOMAIN template.inputs[1].partial_sigs = {}
        /\ template.inputs[1].final_script_witness = None
\* a template without fee, built on a Channel that has been paid
C18_Witness ==
    /\ result.op = "next_payment"
    /\ IsOk(result.ret)
    /\ chan.sent > 0
    /\ SumValues(result.ret.val.unsigned_tx.output) = Cap

\* C19: funding_psbt returns, for every configuration, an unsigned
\* version-2, locktime-0 transaction without inputs whose one output pays
\* capacity to the P2WSH of the funding script; the template is determined
\* by the configuration alone.
C19_FundingTemplate ==
    result.op = "funding_psbt" =>
        LET self == result.args[1]
            template == result.ret.val
        IN  /\ IsOk(result.ret)
            /\ template.unsigned_tx
                 = Transaction(Version_TWO, LockTime_ZERO, <<>>,
                               <<TxOut(self.capacity, new_p2wsh(self.funding_script))>>)
            /\ template.inputs = <<>>
            /\ template.outputs = <<[witness_script |-> Some(self.funding_script)]>>
\* the template of a configuration other than the one main() uses
C19_Witness ==
    /\ result.op = "funding_psbt"
    /\ result.args[1].capacity = 1
    /\ result.args[1].refund_locktime = Sequence_from_512_second_intervals(1)

\* C20: refund_psbt always succeeds and returns an unsigned version-2,
\* locktime-0 transaction without outputs whose one input spends
\* funding_outpoint with the refund_locktime as sequence and carries
\* funding_utxo and the funding script; nothing in it depends on sent.
C20_RefundTemplate ==
    result.op = "refund_psbt" =>
        LET template == result.ret.val IN
        /\ IsOk(result.ret)
        /\ template.unsigned_tx
             = Transaction(Version_TWO, LockTime_ZERO,
                           <<TxIn(chan.funding_outpoint, chan.params.refund_locktime)>>,
                           <<>>)
        /\ template.outputs = <<>>
        /\ Len(template.inputs) = 1
        /\ template.inputs[1].witness_utxo = Some(chan.funding_utxo)
        /\ template.inputs[1].witness_script = Some(chan.params.funding_script)
        /\ DOMAIN template.inputs[1].partial_sigs = {}
        /\ template.inputs[1].final_script_witness = None
\* a refund template asked for after payments were applied
C20_Witness ==
    result.op = "refund_psbt" /\ chan.sent > 0

\* input 0 of the PSBT as a finalizer finds it, and the stack it leaves
HoldsSig(key) == Len(psbt.inputs) >= 1 /\ key \in DOMAIN psbt.inputs[1].partial_sigs
HoldsWitnessScript == Len(psbt.inputs) >= 1 /\ IsSome(psbt.inputs[1].witness_script)
\* what a stored signature becomes on the stack: its DER bytes, then its
\* sighash-type byte
Pushed(sig) ==
    [kind |-> "sig", der |-> Some([signer |-> sig.signer, msg |-> sig.msg]),
     byte |-> sig.sighash_type, script |-> None]

\* C21: on a PSBT whose input 0 holds partial signatures under payer_key and
\* payee_key and a witness script, finalize_payment_tx sets the final witness
\* to five elements: an empty one, the payer's signature with its sighash
\* byte, the payee's with its, the byte 1, the witness script; the payer's
\* comes first whatever the order the signatures were stored in.
C21_PaymentWitnessStack ==
    [][(/\ result'.op = "finalize_payment_tx"
        /\ HoldsSig(chan.params.payer)
        /\ HoldsSig(chan.params.payee)
        /\ HoldsWitnessScript) =>
           LET sigs == psbt.inputs[1].partial_sigs
               final == psbt'.inputs[1].final_script_witness
           IN  /\ IsOk(result'.ret)
               /\ IsSome(final)
               /\ Len(Unwrap(final)) = 5
               /\ Unwrap(final)[1] = [kind |-> "empty", der |-> None, byte |-> 0, script |-> None]
               /\ Unwrap(final)[2] = Pushed(sigs[chan.params.payer])
               /\ Unwrap(final)[3] = Pushed(sigs[chan.params.payee])
               /\ Unwrap(final)[4] = [kind |-> "byte", der |-> None, byte |-> 1, script |-> None]
               /\ Unwrap(final)[5] = [kind |-> "script", der |-> None, byte |-> 0,
                                      script |-> psbt.inputs[1].witness_script]]_vars
\* a payment stack whose two signatures differ in signer and in sighash type
C21_Witness ==
    /\ result.op = "finalize_payment_tx"
    /\ IsOk(result.ret)
    /\ LET final == Unwrap(psbt.inputs[1].final_script_witness) IN
       /\ final[2].der[1].signer = chan.params.payer.inner
       /\ final[3].der[1].signer = chan.params.payee.inner
       /\ final[2].byte # final[3].byte

\* C22: on a PSBT whose input 0 holds a partial signature under payer_key
\* and a witness script, finalize_refund_tx sets the final witness to three
\* elements: the payer's signature with its sighash byte, the byte 0, the
\* witness script; a signature stored under payee_key is not in the stack.
C22_RefundWitnessStack ==
    [][(/\ result'.op = "finalize_refund_tx"
        /\ HoldsSig(chan.params.payer)
        /\ HoldsWitnessScript) =>
           LET sigs == psbt.inputs[1].partial_sigs
               final == psbt'.inputs[1].final_script_witness
           IN  /\ IsOk(result'.ret)
               /\ IsSome(final)
               /\ Len(Unwrap(final)) = 3
               /\ Unwrap(final)[1] = Pushed(sigs[chan.params.payer])
               /\ Unwrap(final)[2] = [kind |-> "byte", der |-> None, byte |-> 0, script |-> None]
               /\ Unwrap(final)[3] = [kind |-> "script", der |-> None, byte |-> 0,
                                      script |-> psbt.inputs[1].witness_script]]_vars
\* a refund template finalized with the payer's signature
C22_Witness ==
    /\ result.op = "finalize_refund_tx"
    /\ IsOk(result.ret)
    /\ Tx.input[1].sequence = chan.params.refund_locktime
    /\ Len(Unwrap(psbt.inputs[1].final_script_witness)) = 3
    /\ Unwrap(psbt.inputs[1].final_script_witness)[1].der[1].signer = chan.params.payer.inner

\* the PSBT has one input and the one metadata entry that goes with it
OneInput == Len(Tx.input) = 1 /\ Len(psbt.inputs) = 1

\* C23: on a PSBT with one input, finalize_payment_tx returns
\* MissingSignature{payer_key} when no signature is stored under payer_key,
\* else MissingSignature{payee_key}, else MissingWitnessScript, and Ok
\* otherwise; finalize_refund_tx returns MissingSignature{payer_key}, else
\* MissingWitnessScript, and Ok otherwise. Nothing else is returned, and a
\* stored signature is not verified.
C23_FinalizeFailures ==
    [][OneInput =>
        /\ result'.op = "finalize_payment_tx" =>
             result'.ret =
                IF ~HoldsSig(chan.params.payer)
                THEN ErrWith("Finalize", "MissingSignature", chan.params.payer)
                ELSE IF ~HoldsSig(chan.params.payee)
                THEN ErrWith("Finalize", "MissingSignature", chan.params.payee)
                ELSE IF ~HoldsWitnessScript
                THEN Err("Finalize", "MissingWitnessScript")
                ELSE Ok(<<>>)
        /\ result'.op = "finalize_refund_tx" =>
             result'.ret =
                IF ~HoldsSig(chan.params.payer)
                THEN ErrWith("Finalize", "MissingSignature", chan.params.payer)
                ELSE IF ~HoldsWitnessScript
                THEN Err("Finalize", "MissingWitnessScript")
                ELSE Ok(<<>>)]_vars
\* a payment finalized although the signature stored under payer_key was
\* made by the payee
C23_Witness ==
    /\ result.op = "finalize_payment_tx"
    /\ IsOk(result.ret)
    /\ OneInput
    /\ Unwrap(psbt.inputs[1].final_script_witness)[2].der[1].signer = chan.params.payee.inner

\* C24: after a successful finalize_payment_tx or finalize_refund_tx input 0
\* has its final witness set and holds no partial signature at all.
C24_PartialSigsCleared ==
    (result.op \in {"finalize_payment_tx", "finalize_refund_tx"} /\ IsOk(result.ret)) =>
        /\ Len(psbt.inputs) >= 1
        /\ IsSome(psbt.inputs[1].final_script_witness)
        /\ DOMAIN psbt.inputs[1].partial_sigs = {}
\* a refund finalized from the payee's signature, which was stored under
\* both keys: two signatures were stored and one was used
C24_Witness ==
    /\ result.op = "finalize_refund_tx"
    /\ IsOk(result.ret)
    /\ Unwrap(psbt.inputs[1].final_script_witness)[1].der[1].signer = chan.params.payee.inner
    /\ DOMAIN psbt.inputs[1].partial_sigs = {}

\* verify_payment_psbt has returned what the build with these checks returns
VerifiedBy(checks) ==
    Verified /\ result.ret = verify_payment_psbt(chan, psbt, checks)
\* that build accepts the PSBT p on the Channel as it is
AcceptedBy(p, checks) == IsOk(verify_payment_psbt(chan, p, checks))
\* The PSBT is an accepted one with its payer signature altered: the stored
\* signature is not the payer's over the digest, and with the payer's, of
\* the same sighash type, in its place the PSBT is accepted.
AlteredSignature(checks) ==
    /\ Len(Tx.input) = 1
    /\ HasPayerSig
    /\ LET ty == PayerSig.sighash_type
           good == Signature(chan.params.payer.inner, Digest(ty), ty, Tx)
       IN  /\ PayerSig.signer # good.signer \/ PayerSig.msg # good.msg
           /\ AcceptedBy([psbt EXCEPT !.inputs[1].partial_sigs =
                                         Insert(@, chan.params.payer, good)],
                         checks)
\* ... with its witness script altered
AlteredWitnessScript(checks) ==
    /\ Len(psbt.inputs) >= 1
    /\ IsSome(psbt.inputs[1].witness_script)
    /\ psbt.inputs[1].witness_script # Some(chan.params.funding_script)
    /\ AcceptedBy([psbt EXCEPT !.inputs[1].witness_script =
                                  Some(chan.params.funding_script)],
                  checks)
\* ... with the value of its witness UTXO altered
AlteredValue(checks) ==
    /\ Len(psbt.inputs) >= 1
    /\ IsSome(psbt.inputs[1].witness_utxo)
    /\ Unwrap(psbt.inputs[1].witness_utxo).script_pubkey = chan.funding_utxo.script_pubkey
    /\ Unwrap(psbt.inputs[1].witness_utxo).value # chan.funding_utxo.value
    /\ AcceptedBy([psbt EXCEPT !.inputs[1].witness_utxo = Some(chan.funding_utxo)],
                  checks)

\* C25 as stated: an accepted artifact with its payer signature, its
\* witness script or its committed input value altered is refused with
\* InvalidSignature.
C25_AlterationIsInvalidSignature ==
    \A checks \in BOOLEAN :
        (/\ VerifiedBy(checks)
         /\ \/ AlteredSignature(checks)
            \/ AlteredWitnessScript(checks)
            \/ AlteredValue(checks))
            => Rejected("InvalidSignature")

\* C25 as amended: an accepted artifact with its payer signature altered is
\* refused with InvalidSignature; with its witness script altered it is
\* refused with WitnessScriptMismatch and with its committed input value
\* altered with WitnessUtxoMismatch, both before the signature is looked at.
C25_AlterationIsRefused ==
    \A checks \in BOOLEAN :
        VerifiedBy(checks) =>
            /\ AlteredSignature(checks) => Rejected("InvalidSignature")
            /\ AlteredWitnessScript(checks) => Rejected("WitnessScriptMismatch")
            /\ AlteredValue(checks) => Rejected("WitnessUtxoMismatch")
\* a payment refused because the signature stored under payer_key, of type
\* ALL and over the right digest, is another key's
C25_Witness ==
    /\ Verified
    /\ \A checks \in BOOLEAN : AlteredSignature(checks)
    /\ Rejected("InvalidSignature")
    /\ PayerSig.sighash_type = SIGHASH_ALL

\* C26: a successful apply_payment returns the facts verification produced
\* for the PSBT: total, current = total - sent with sent as it was before
\* the update, and fee.
C26_ApplyReturnsFacts ==
    [][(result'.op = "apply_payment" /\ IsOk(result'.ret)) =>
          LET facts == result'.ret.val IN
          /\ DOMAIN facts = {"total", "current", "fee"}
          /\ \E checks \in BOOLEAN :
                LET payment == verify_payment_psbt(chan, psbt, checks) IN
                /\ IsOk(payment)
                /\ facts.total = payment.val.total
                /\ facts.current = payment.val.total - chan.sent
                /\ facts.fee = payment.val.fee]_vars

\* C27: verify_payment_psbt, apply_payment, finalize_payment_tx and
\* finalize_refund_tx return Ok or Err for every PSBT, whatever the number
\* of its transaction's inputs and of its metadata entries; none aborts.
C27_FailuresAreReturned ==
    result.op \in {"verify_payment_psbt", "apply_payment",
                   "finalize_payment_tx", "finalize_refund_tx"}
        => result.ret.tag \in {"Ok", "Err"}

\* the one category of SpillError each operation returns
ErrorCategory(op) ==
    CASE op = "ChannelParams_new" -> "Config"
      [] op = "verify_funding_tx" -> "Funding"
      [] op \in {"next_payment", "verify_payment_psbt", "apply_payment"} -> "Payment"
      [] op \in {"finalize_payment_tx", "finalize_refund_tx"} -> "Finalize"
      [] OTHER -> ""

\* C28: ChannelParams::new returns only Config errors, verify_funding_tx
\* only Funding errors, next_payment, verify_payment_psbt and apply_payment
\* only Payment errors and the finalizers only Finalize errors; on a Channel
\* that verify_funding_tx returned, the key-hash steps of next_payment and
\* verify_payment_psbt never return Config(UncompressedPublicKey).
C28_ErrorCategories ==
    result.ret.tag = "Err" => result.ret.cat = ErrorCategory(result.op)
\* a payment refused on a Channel opened with parameters other than main()'s
C28_Witness ==
    /\ Opened
    /\ result.op = "verify_payment_psbt"
    /\ IsErr(result.ret, "Payment", "MissingSignature")
    /\ Unwrap(chan).params.capacity = 1
    /\ Unwrap(chan).params.refund_locktime = Sequence_from_512_second_intervals(1)

\* main.rs sign_payment_tx as a function: the PSBT p with key's signature
\* of type ty over input 0 stored under key
SignedBy(p, key, ty) ==
    LET msg == p2wsh_signature_hash(p.unsigned_tx,
                                    Unwrap(p.inputs[1].witness_script),
                                    Unwrap(p.inputs[1].witness_utxo).value, ty)
        sig == Signature(key.inner, msg, ty, p.unsigned_tx)
    IN  [p EXCEPT !.inputs[1].partial_sigs = Insert(@, key, sig)]
\* the payments the payer can have signed for the Channel as it is
PayerArtifacts ==
    {SignedBy(next_payment(chan, x[1], x[2]).val, chan.params.payer, SIGHASH_ALL) :
        x \in {y \in (1..Capacity) \X Fees : IsOk(next_payment(chan, y[1], y[2]))}}
\* the total verification finds in an accepted PSBT
TotalOf(p, checks) == verify_payment_psbt(chan, p, checks).val.total
\* the PSBT in hand has been accepted, and so is the other one, by the same
\* build and on the same Channel state
BothVerified(other, checks) ==
    /\ Accepted
    /\ other # psbt
    /\ VerifiedBy(checks)
    /\ AcceptedBy(other, checks)
\* the two apply_payment calls, one after the other
AppliedInTurn(first, second, checks) ==
    LET one == apply_payment(chan, first, checks)
        two == apply_payment(one.self, second, checks)
    IN  [first |-> one, second |-> two]

\* C29 as stated: when two different PSBTs are both accepted on the same
\* Channel state and then applied one after the other, one apply_payment
\* succeeds and the other one fails and leaves sent as it was.
C29_OnlyOneApplyWins ==
    Accepted => \A checks \in BOOLEAN : VerifiedBy(checks) => \A other \in PayerArtifacts :
        BothVerified(other, checks) =>
            \A order \in {<<psbt, other>>, <<other, psbt>>} :
                LET applied == AppliedInTurn(order[1], order[2], checks) IN
                /\ IsOk(applied.first.ret)
                /\ ~IsOk(applied.second.ret)
                /\ applied.second.self.sent = applied.first.self.sent

\* C29 as amended: the first apply_payment succeeds; the second is verified
\* against the updated sent, so it succeeds too when its total is strictly
\* above the first one's, and otherwise fails with PaymentNotIncremental
\* and leaves sent as it was.
C29_SecondApplyIsReverified ==
    Accepted => \A checks \in BOOLEAN : VerifiedBy(checks) => \A other \in PayerArtifacts :
        BothVerified(other, checks) =>
            \A order \in {<<psbt, other>>, <<other, psbt>>} :
                LET applied == AppliedInTurn(order[1], order[2], checks) IN
                /\ IsOk(applied.first.ret)
                /\ applied.first.self.sent = TotalOf(order[1], checks)
                /\ IF TotalOf(order[2], checks) > TotalOf(order[1], checks)
                   THEN /\ IsOk(applied.second.ret)
                        /\ applied.second.self.sent = TotalOf(order[2], checks)
                   ELSE /\ applied.second.ret = Err("Payment", "PaymentNotIncremental")
                        /\ applied.second.self = applied.first.self
\* on a Channel that has been paid, an accepted payment and a second one
\* of a higher total, and a third of the same total
C29_Witness ==
    /\ Accepted
    /\ chan.sent > 0
    /\ \E other \in PayerArtifacts : \A checks \in BOOLEAN :
          BothVerified(other, checks) /\ TotalOf(other, checks) > TotalOf(psbt, checks)
    /\ \E other \in PayerArtifacts : \A checks \in BOOLEAN :
          BothVerified(other, checks) /\ TotalOf(other, checks) = TotalOf(psbt, checks)

\* the PSBT in hand is what next_payment(amount, fee) returns on the Channel
\* as it is, with a valid SIGHASH_ALL signature of the payer added
BuiltAndSigned(amount, fee) ==
    LET r == next_payment(chan, amount, fee) IN
    /\ IsOk(r)
    /\ Len(psbt.inputs) = 1
    /\ [psbt EXCEPT !.inputs[1].partial_sigs = << >>] = r.val
    /\ ValidlySigned

\* C30: with sent + amount + fee <= capacity, the PSBT next_payment(amount,
\* fee) returns, once validly signed by the payer with SIGHASH_ALL, is
\* accepted on the same Channel state iff amount > 0, with total = sent +
\* amount, current = amount and the fee passed in; for amount = 0 it is
\* refused with PaymentNotIncremental. Applied, and followed by a second
\* payment built, signed and applied the same way, both succeed and sent
\* ends at the sum of the two amounts.
C30_ConstructThenVerify ==
    Verified => \A checks \in BOOLEAN : \A amount \in 0..Capacity, fee \in Fees :
        (/\ chan.sent + amount + fee <= Cap
         /\ BuiltAndSigned(amount, fee)
         /\ VerifiedBy(checks)) =>
            IF amount = 0 THEN Rejected("PaymentNotIncremental")
            ELSE /\ result.ret = Ok([total |-> chan.sent + amount,
                                     current |-> amount,
                                     fee |-> fee])
                 /\ LET one == apply_payment(chan, psbt, checks) IN
                    /\ IsOk(one.ret)
                    /\ one.self.sent = chan.sent + amount
                    /\ \A amount2 \in 1..Capacity, fee2 \in Fees :
                          one.self.sent + amount2 + fee2 <= Cap =>
                             LET r == next_payment(one.self, amount2, fee2)
                                 signed == SignedBy(r.val, chan.params.payer, SIGHASH_ALL)
                                 two == apply_payment(one.self, signed, checks)
                             IN  /\ IsOk(r)
                                 /\ IsOk(two.ret)
                                 /\ two.self.sent = chan.sent + amount + amount2
\* the second payment of a sequence, built with a fee, signed and accepted
C30_Witness ==
    /\ Accepted
    /\ chan.sent > 0
    /\ BuiltAndSigned(1, 1)
    /\ result.ret.val = [total |-> chan.sent + 1, current |-> 1, fee |-> 1]

\* the Channel once payments have taken sent to s
PaidUpTo(s) == [chan EXCEPT !.sent = s]
\* the PSBT in hand was accepted when less had been sent, and claims no
\* more than has been sent since
VerifiedEarlier ==
    \E checks \in BOOLEAN : \E s \in 0..(chan.sent - 1) :
        LET v == verify_payment_psbt(PaidUpTo(s), psbt, checks) IN
        IsOk(v) /\ v.val.total <= chan.sent

\* C31: apply_payment never lowers sent and a successful one raises it; an
\* artifact accepted earlier whose total is not above sent any more, the
\* one just applied included, is refused with PaymentNotIncremental by
\* apply_payment, which leaves the Channel as it was.
C31_StaleArtifactsAreRefused ==
    [][result'.op = "apply_payment" =>
        /\ chan'.sent >= chan.sent
        /\ VerifiedEarlier =>
              /\ result'.ret = Err("Payment", "PaymentNotIncremental")
              /\ chan' = chan
        /\ IF IsOk(result'.ret)
           THEN /\ chan'.sent > chan.sent
                /\ \A checks \in BOOLEAN : \A s \in chan'.sent..AmountMax :
                      apply_payment(PaidUpTo(s), psbt, checks)
                        = [self |-> PaidUpTo(s),
                           ret |-> Err("Payment", "PaymentNotIncremental")]
           ELSE chan' = chan]_vars
\* the second payment of a Channel, applied, is offered again and refused
C31_Witness ==
    /\ result.op = "apply_payment"
    /\ Rejected("PaymentNotIncremental")
    /\ BoundToFunding
    /\ ValidlySigned
    /\ SumValues(Tx.output) <= Cap
    /\ PayeeValue = chan.sent
    /\ chan.sent > 1

\* the transaction has an input and the PSBT one metadata entry, its own
HasInputZero == Len(Tx.input) >= 1 /\ Len(psbt.inputs) = 1

\* C32: an accepted artifact spends the funding outpoint and declares the
\* recorded funding output and the funding script. One whose input 0 has
\* another previous outpoint, txid or index, is refused with
\* FundingOutpointMismatch; then one without a witness UTXO with
\* MissingWitnessUtxo and one with another value or script with
\* WitnessUtxoMismatch; then one without a witness script with
\* MissingWitnessScript and one with another script with
\* WitnessScriptMismatch.
C32_BoundToFundingOutput ==
    Verified =>
        /\ IsOk(result.ret) =>
              /\ HasInputZero
              /\ Tx.input[1].previous_output = chan.funding_outpoint
              /\ psbt.inputs[1].witness_utxo = Some(chan.funding_utxo)
              /\ psbt.inputs[1].witness_script = Some(chan.params.funding_script)
        /\ HasInputZero =>
              IF Tx.input[1].previous_output # chan.funding_outpoint
              THEN Rejected("FundingOutpointMismatch")
              ELSE IF psbt.inputs[1].witness_utxo = None
              THEN Rejected("MissingWitnessUtxo")
              ELSE IF psbt.inputs[1].witness_utxo # Some(chan.funding_utxo)
              THEN Rejected("WitnessUtxoMismatch")
              ELSE IF psbt.inputs[1].witness_script = None
              THEN Rejected("MissingWitnessScript")
              ELSE psbt.inputs[1].witness_script # Some(chan.params.funding_script)
                      => Rejected("WitnessScriptMismatch")
\* a payment spending another output of the funding transaction, on a
\* Channel that has been paid
C32_Witness ==
    /\ Verified
    /\ Rejected("FundingOutpointMismatch")
    /\ HasInputZero
    /\ Tx.input[1].previous_output.txid = chan.funding_outpoint.txid
    /\ Tx.input[1].previous_output.vout # chan.funding_outpoint.vout
    /\ chan.sent > 0

\* C33: an artifact whose input sequence is not Sequence::MAX, the
\* Channel's own refund_locktime included, is refused with InvalidSequence,
\* and one whose locktime is not zero with NonZeroLocktime; an accepted
\* artifact has sequence MAX and locktime zero, and so is no refund
\* transaction of the Channel.
C33_SequenceAndLocktime ==
    (Opened /\ Verified /\ Len(Tx.input) >= 1) =>
        LET self == Unwrap(chan)
            sequence == Tx.input[1].sequence
        IN
        /\ IsOk(result.ret) =>
              /\ sequence = Sequence_MAX
              /\ sequence # self.params.refund_locktime
              /\ Tx.lock_time = LockTime_ZERO
        /\ (/\ Len(psbt.inputs) = 1
            /\ Tx.input[1].previous_output = self.funding_outpoint
            /\ psbt.inputs[1].witness_utxo = Some(self.funding_utxo)
            /\ psbt.inputs[1].witness_script = Some(self.params.funding_script)) =>
              IF sequence # Sequence_MAX \/ sequence = self.params.refund_locktime
              THEN Rejected("InvalidSequence")
              ELSE Tx.lock_time # LockTime_ZERO => Rejected("NonZeroLocktime")

\* the checks made after the payee output has been found and its value
\* compared with sent: the output sum and the payer signature
LaterChecks ==
    {"OutputsExceedFundingAmount", "MissingSignature", "InvalidSighash", "InvalidSignature"}

\* C34: MissingPayeeOutput is returned only when no output pays the payee's
\* P2WPKH script, and always when none does and the checks before it pass.
\* Otherwise the claimed total is the value of the first such output: it
\* is what is compared with sent and what is returned as total, with
\* current = total - sent. However many outputs there are and whatever
\* the others pay, they are refused only by the output-sum check and show
\* only in the fee, capacity less the sum verification computed.
C34_FirstPayeeOutput ==
    Verified =>
        /\ Rejected("MissingPayeeOutput") => ~HasPayeeOutput
        /\ (BoundToFunding /\ ~HasPayeeOutput) => Rejected("MissingPayeeOutput")
        /\ (BoundToFunding /\ HasPayeeOutput) =>
              IF PayeeValue <= chan.sent
              THEN Rejected("PaymentNotIncremental")
              ELSE result.ret.tag = "Err" => result.ret.kind \in LaterChecks
        /\ IsOk(result.ret) =>
              /\ HasPayeeOutput
              /\ result.ret.val.total = PayeeValue
              /\ result.ret.val.current = PayeeValue - chan.sent
              /\ \A checks \in BOOLEAN :
                    VerifiedBy(checks) =>
                        result.ret.val.fee = Cap - Unwrap(AmountSum(Tx.output, checks))
\* an accepted payment of three outputs, two of them to the payee, whose
\* total is the first one's value and not the second one's
C34_Witness ==
    /\ Accepted
    /\ Len(Tx.output) = 3
    /\ \E i, j \in PayeeOutputs :
          /\ i < j
          /\ Tx.output[i].value # Tx.output[j].value
          /\ result.ret.val.total = Tx.output[i].value
    /\ chan.sent > 0

\* C35: next_payment(amount, fee) returns a template or ExceedsCapacity for
\* every amount and fee an Amount can hold; when amount + sent + fee does
\* not fit in an Amount it still returns ExceedsCapacity: it neither
\* aborts nor goes on with a wrapped sum.
C35_NextPaymentNeverOverflows ==
    [][result'.op = "next_payment" =>
        \A amount \in Amounts, fee \in Fees :
            NextPayment(amount, fee) =>
                /\ IsOk(result'.ret) \/ IsErr(result'.ret, "Payment", "ExceedsCapacity")
                /\ amount + chan.sent + fee > AmountMax =>
                      IsErr(result'.ret, "Payment", "ExceedsCapacity")]_vars

\* C36: an artifact whose output values truly sum to more than capacity,
\* a sum above the largest Amount included, is never accepted, on a
\* wrapped sum or otherwise; the fee returned with an accepted one is at
\* most capacity - total.
C36_OutputSumNeverWraps ==
    Verified =>
        /\ SumValues(Tx.output) > Cap => ~IsOk(result.ret)
        /\ IsOk(result.ret) =>
              result.ret.val.fee <= Cap - result.ret.val.total

\* the PSBT p with the funding script declared, when it declares none
WithWitnessScript(p) ==
    [p EXCEPT !.inputs[1].witness_script =
                 IF IsSome(@) THEN @ ELSE Some(chan.params.funding_script)]
\* the PSBT p signed by key, when it holds no signature under key
SignedIfMissing(p, key) ==
    IF key \in DOMAIN p.inputs[1].partial_sigs THEN p ELSE SignedBy(p, key, SIGHASH_ALL)
\* a PSBT the wallets can sign: it has an input and declares its output
Signable(p) ==
    /\ Len(p.unsigned_tx.input) >= 1
    /\ Len(p.inputs) >= 1
    /\ IsSome(p.inputs[1].witness_utxo)

\* C37: a finalizer that fails with MissingSignature or MissingWitnessScript
\* leaves the PSBT exactly as it was, partial signatures included and no
\* final witness set; given what was missing, the same PSBT is finalized.
C37_FailedFinalizeChangesNothing ==
    [][(/\ result'.op \in {"finalize_payment_tx", "finalize_refund_tx"}
        /\ result'.ret.tag = "Err") =>
            /\ psbt' = psbt
            /\ Signable(psbt') =>
                  LET script == WithWitnessScript(psbt')
                      payer == SignedIfMissing(script, chan.params.payer)
                      both == SignedIfMissing(payer, chan.params.payee)
                  IN  IF result'.op = "finalize_payment_tx"
                      THEN IsOk(finalize_payment_tx(chan, both).ret)
                      ELSE IsOk(finalize_refund_tx(chan, payer).ret)]_vars
\* a refund that could not be finalized for want of the witness script
\* still holds the payer's signature and has no final witness
C37_Witness ==
    /\ result.op = "finalize_refund_tx"
    /\ result.ret = Err("Finalize", "MissingWitnessScript")
    /\ HoldsSig(chan.params.payer)
    /\ psbt.inputs[1].final_script_witness = None

\* a finalizer has just succeeded
Finalizing ==
    /\ result'.op \in {"finalize_payment_tx", "finalize_refund_tx"}
    /\ IsOk(result'.ret)
\* the witness stack it produced
FinalWitness == Unwrap(psbt'.inputs[1].final_script_witness)
\* the signatures in the stack are those that were stored under the
\* Channel's payer key and, for a payment, its payee key
SignaturesOfChannelKeys ==
    LET sigs == psbt.inputs[1].partial_sigs IN
    IF result'.op = "finalize_payment_tx"
    THEN /\ FinalWitness[2] = Pushed(sigs[chan.params.payer])
         /\ FinalWitness[3] = Pushed(sigs[chan.params.payee])
    ELSE FinalWitness[1] = Pushed(sigs[chan.params.payer])

====
